---- MODULE Spec2Model ----
(***************************************************************************)
(* Model of cinder/volume/drivers/nexenta/iscsi.py, NexentaISCSIDriver:    *)
(* the export reconciliation (_do_export, create_export, ensure_export,    *)
(* remove_export) and create_volume, run against a NexentaStor appliance   *)
(* reached through the NMS proxy (self.nms).  One step of the model is one *)
(* remote call together with the driver code that handles its reply.       *)
(***************************************************************************)
EXTENDS Integers, Sequences, FiniteSets, TLC

VARIABLES
    nms,      \* the appliance behind self.nms: the resources it holds
    cond,     \* per NMS method: how the appliance answers it until it changes
    th,       \* per caller: the driver call in progress (or the last one)
    streak,   \* the last thing that happened is an ensure_export that returned
    aborted   \* volumes for which an export run was aborted by a fault

vars == <<nms, cond, th, streak, aborted>>

----------------------------------------------------------------------------
(* Bounds of the model *)

\* how many NMS methods the appliance fails at the same time
MaxFaults == 2

Volumes == {"v1"}

Procs == {"a"}

----------------------------------------------------------------------------
(* Configuration (self.configuration, __init__) *)

nexenta_volume == "tank"

nms_host == "host1"

nexenta_iscsi_target_portal_port == 3260

nexenta_target_prefix == "iqn.prefix."

nexenta_target_group_prefix == "cinder/"

_get_zvol_name(volume_name) ==
    nexenta_volume \o "/" \o volume_name

_get_target_name(volume_name) ==
    nexenta_target_prefix \o volume_name

_get_target_group_name(volume_name) ==
    nexenta_target_group_prefix \o volume_name

\* variant: the target group name in place of the target name
_get_provider_location_group(volume_name) ==
    nms_host \o ":" \o ToString(nexenta_iscsi_target_portal_port) \o ",1 "
        \o _get_target_group_name(volume_name) \o " 0"


_get_provider_location(volume_name) ==
    nms_host \o ":" \o ToString(nexenta_iscsi_target_portal_port) \o ",1 "
        \o _get_target_name(volume_name) \o " 0"

----------------------------------------------------------------------------
(* Fault messages.  A message is modelled by the set of wordings, among the *)
(* ones the driver looks for with `in exc.args[0]`, that occur in its text. *)

\* the wordings the export code looks for, and one it does not look for
Wordings ==
    { "does not exist", "does not exist for zvol",
      "already configured", "already exists", "target must be offline",
      "in use", "view entry exists", "has children" }

\* a text that holds the longer wording holds the shorter one too
Implied(w) ==
    CASE w = "does not exist for zvol" -> {w, "does not exist"}
      [] w = "zvol has children" -> {w, "has children"}
      [] w = "snapshot has dependent clones" -> {w, "dependent clones"}
      [] OTHER -> {w}

Text(parts) ==
    UNION {Implied(w) : w \in parts}

\* texts that hold two wordings at once
Combined ==
    { {"already configured", "target must be offline"} }

\* the fault messages of the model: a text with none of the wordings, one
\* text per wording, and the combined ones
Messages ==
    {Text(parts) : parts \in {{}} \cup {{w} : w \in Wordings} \cup Combined}

\* the wordings the volume and snapshot code looks for, and the shorter
\* wordings that are part of them
DestroyWordings ==
    { "does not exist", "has children", "zvol has children",
      "dependent clones", "snapshot has dependent clones" }

DestroyCombined ==
    { {"does not exist", "zvol has children"},
      {"does not exist", "snapshot has dependent clones"} }

\* the fault messages of the volume, snapshot and migration calls
DestroyMessages ==
    {Text(parts) :
        parts \in {{}} \cup {{w} : w \in DestroyWordings} \cup DestroyCombined}

\* `wording in exc.args[0]`
Contains(msg, wording) ==
    wording \in msg

----------------------------------------------------------------------------
(* The appliance *)

Methods ==
    { "stmf.list_targets", "iscsitarget.create_target",
      "stmf.list_targetgroups", "stmf.create_targetgroup",
      "stmf.list_targetgroup_members", "stmf.add_targetgroup_member",
      "scsidisk.lu_exists", "scsidisk.create_lu",
      "scsidisk.lu_shared", "scsidisk.add_lun_mapping_entry",
      "scsidisk.delete_lu", "stmf.destroy_targetgroup",
      "iscsitarget.delete_target", "zvol.create",
      "zvol.get_child_props", "zvol.destroy", "snapshot.destroy",
      "zvol.create_snapshot", "zvol.clone",
      "appliance.ssh_list_bindings", "appliance.execute",
      "dst.snapshot.destroy" }

\* the calls of the volume, snapshot and migration code
LifecycleMethods ==
    { "zvol.get_child_props", "zvol.destroy", "snapshot.destroy",
      "zvol.create_snapshot", "zvol.clone",
      "appliance.ssh_list_bindings", "appliance.execute",
      "dst.snapshot.destroy" }

MessagesFor(m) ==
    IF m \in LifecycleMethods THEN DestroyMessages ELSE Messages

EmptyAppliance ==
    [ targets |-> {}, groups |-> {}, members |-> {}, lus |-> {},
      maps |-> {}, zvols |-> {}, snapshots |-> {}, props |-> <<>>,
      bindings |-> <<>>, dst_snapshots |-> {} ]

\* an appliance that already serves a target and a group of somebody else
OtherTenant ==
    [ EmptyAppliance EXCEPT !.targets = {"iqn.prefix.other"},
                            !.groups = {"cinder/other"} ]

Undetermined == [known |-> FALSE, ok |-> TRUE, msg |-> {}]

Healthy == [known |-> TRUE, ok |-> TRUE, msg |-> {}]

Failing(msg) == [known |-> TRUE, ok |-> FALSE, msg |-> msg]

Faulty == {m \in Methods : cond[m].known /\ ~cond[m].ok}

FaultFree == \A m \in Methods : cond[m] = Healthy

\* the answers method m can give now: the one it gave before while the
\* appliance has not changed, otherwise success or any fault
Conditions(m) ==
    IF cond[m].known THEN {cond[m]}
    ELSE {Healthy} \cup
         (IF Cardinality(Faulty) < MaxFaults
             THEN {Failing(msg) : msg \in MessagesFor(m)} ELSE {})

Done(n) == [ok |-> TRUE, msg |-> {}, nms |-> n]

Rejected(wording) == [ok |-> FALSE, msg |-> Text({wording}), nms |-> nms]

\* what a call does on an appliance that serves it
Serve(m, arg) ==
    CASE m = "iscsitarget.create_target" ->
            IF arg[1] \in nms.targets THEN Rejected("already configured")
            ELSE Done([nms EXCEPT !.targets = @ \cup {arg[1]}])
      [] m = "stmf.create_targetgroup" ->
            IF arg[1] \in nms.groups THEN Rejected("already exists")
            ELSE Done([nms EXCEPT !.groups = @ \cup {arg[1]}])
      [] m = "stmf.add_targetgroup_member" ->
            IF <<arg[1], arg[2]>> \in nms.members THEN Rejected("already exists")
            ELSE Done([nms EXCEPT !.members = @ \cup {<<arg[1], arg[2]>>}])
      [] m = "scsidisk.create_lu" ->
            IF arg[1] \in nms.lus THEN Rejected("in use")
            ELSE Done([nms EXCEPT !.lus = @ \cup {arg[1]}])
      [] m = "scsidisk.add_lun_mapping_entry" ->
            IF \E e \in nms.maps : e[1] = arg[1] THEN Rejected("view entry exists")
            ELSE Done([nms EXCEPT !.maps = @ \cup {<<arg[1], arg[2], arg[3]>>}])
      [] m = "scsidisk.delete_lu" ->
            IF arg[1] \notin nms.lus THEN Rejected("does not exist")
            ELSE Done([nms EXCEPT !.lus = @ \ {arg[1]},
                                  !.maps = {e \in @ : e[1] # arg[1]}])
      [] m = "stmf.destroy_targetgroup" ->
            IF arg[1] \notin nms.groups THEN Rejected("does not exist")
            ELSE Done([nms EXCEPT !.groups = @ \ {arg[1]},
                                  !.members = {e \in @ : e[1] # arg[1]}])
      [] m = "iscsitarget.delete_target" ->
            IF arg[1] \notin nms.targets THEN Rejected("does not exist")
            ELSE Done([nms EXCEPT !.targets = @ \ {arg[1]},
                                  !.members = {e \in @ : e[2] # arg[1]}])
      [] m = "zvol.create" ->
            IF arg[1] \in nms.zvols THEN Rejected("already exists")
            ELSE Done([nms EXCEPT !.zvols = @ \cup {arg[1]}])
      [] m = "zvol.destroy" ->
            IF arg[1] \notin nms.zvols THEN Rejected("does not exist")
            ELSE Done([nms EXCEPT !.zvols = @ \ {arg[1]}, !.props = <<>>])
      [] m = "snapshot.destroy" ->
            IF arg[1] \notin nms.snapshots THEN Rejected("does not exist")
            ELSE Done([nms EXCEPT !.snapshots = @ \ {arg[1]}])
      [] m = "zvol.create_snapshot" ->
            IF arg[1] \notin nms.zvols THEN Rejected("does not exist")
            ELSE Done([nms EXCEPT
                         !.snapshots = @ \cup {arg[1] \o "@" \o arg[2]}])
      [] m = "zvol.clone" ->
            IF arg[1] \notin nms.snapshots THEN Rejected("does not exist")
            ELSE Done([nms EXCEPT !.zvols = @ \cup {arg[2]}])
      [] m = "appliance.execute" ->
            Done([nms EXCEPT !.dst_snapshots = @ \cup {arg[1]}])
      [] m = "dst.snapshot.destroy" ->
            IF arg[1] \notin nms.dst_snapshots THEN Rejected("does not exist")
            ELSE Done([nms EXCEPT !.dst_snapshots = @ \ {arg[1]}])
      [] OTHER -> Done(nms)

\* the reply to a call of method m whose condition is c: a NexentaException
\* carrying the message, or the served call
Reply(m, arg, c) ==
    IF c.ok THEN Serve(m, arg)
    ELSE [ok |-> FALSE, msg |-> c.msg, nms |-> nms]

----------------------------------------------------------------------------
(* What the appliance reports to the read-only calls *)

list_targets(n) == n.targets

list_targetgroups(n) == n.groups

list_targetgroup_members(n, target_group) ==
    {e[2] : e \in {x \in n.members : x[1] = target_group}}

lu_exists(n, zvol_name) == zvol_name \in n.lus

lu_shared(n, zvol_name) == Cardinality({e \in n.maps : e[1] = zvol_name})

----------------------------------------------------------------------------
(* The driver call in progress *)

NoExc == [type |-> "none", msg |-> {}]

NexentaException(msg) == [type |-> "NexentaException", msg |-> msg]

None == <<>>

VolumeIsBusy(volume_name) ==
    [type |-> "VolumeIsBusy", volume_name |-> volume_name]

SnapshotIsBusy(snapshot_name) ==
    [type |-> "SnapshotIsBusy", snapshot_name |-> snapshot_name]

KeyError(key) == [type |-> "KeyError", key |-> key]

ValueError == [type |-> "ValueError"]

\* an exception of the transport that is not a NexentaException
UnexpectedError == [type |-> "Exception"]

\* pc: the remote call about to be issued, or idle, done (returned), raised
\* frames: the driver methods entered and not yet left, innermost last
\* pending: what a cleanup in progress goes back to: the exception of the
\*     handler it runs in ("raise"), a return ("return") or the next
\*     statement ("fall")
\* snapshot: the snapshot reference the snapshot calls work on
\* calls: the remote calls issued so far, each with its reply
\* found: export steps whose existence check returned True
\* ignored: steps whose creation (or removal) fault was logged and ignored
\* assumed: steps whose existence check faulted and was taken for "absent"
Idle ==
    [ pc |-> "idle", op |-> "none", vol |-> "v1", ensure |-> FALSE,
      exc |-> NoExc, ret |-> None, calls |-> <<>>, found |-> {},
      ignored |-> {}, assumed |-> {}, absent |-> {}, changed |-> FALSE,
      second |-> FALSE, first |-> {}, faultfree |-> FALSE,
      after_abort |-> FALSE, frames |-> <<>>,
      pending |-> [kind |-> "none", exc |-> NoExc],
      snapshot |-> [volume_name |-> "", name |-> ""],
      status |-> "available", host |-> <<>>, props |-> <<>> ]

Ops == {"create_export", "ensure_export", "remove_export", "create_volume"}

Entry(op) ==
    CASE op = "create_volume" -> "zvol.create"
      [] op = "remove_export" -> "scsidisk.delete_lu"
      [] OTHER -> "stmf.list_targets"

\* the existence check and the creation call of export step k
CheckOf(k) ==
    CASE k = 1 -> "stmf.list_targets"
      [] k = 2 -> "stmf.list_targetgroups"
      [] k = 3 -> "stmf.list_targetgroup_members"
      [] k = 4 -> "scsidisk.lu_exists"
      [] k = 5 -> "scsidisk.lu_shared"

CreateOf(k) ==
    CASE k = 1 -> "iscsitarget.create_target"
      [] k = 2 -> "stmf.create_targetgroup"
      [] k = 3 -> "stmf.add_targetgroup_member"
      [] k = 4 -> "scsidisk.create_lu"
      [] k = 5 -> "scsidisk.add_lun_mapping_entry"

Called(t, m, arg, r) ==
    [t EXCEPT !.calls = Append(@, [m |-> m, arg |-> arg, ok |-> r.ok,
                                   msg |-> r.msg])]

Raise(t, e) ==
    [t EXCEPT !.pc = "raised", !.exc = e]

Goto(t, pc) ==
    [t EXCEPT !.pc = pc]

Return(t, v) ==
    [t EXCEPT !.pc = "done", !.ret = v]

\* the steps of the export sequence whose resource the appliance n lacks
Absent(n, v) ==
    {k \in 1..5 :
        CASE k = 1 -> _get_target_name(v) \notin n.targets
          [] k = 2 -> _get_target_group_name(v) \notin n.groups
          [] k = 3 -> <<_get_target_group_name(v), _get_target_name(v)>>
                          \notin n.members
          [] k = 4 -> _get_zvol_name(v) \notin n.lus
          [] k = 5 -> \A e \in n.maps : e[1] # _get_zvol_name(v)}

\* one remote call of caller p is over: the appliance has answered under
\* condition c, its state is n and the caller is at t
Commit(p, m, c, n, t) ==
    /\ cond' = [cond EXCEPT ![m] = c]
    /\ nms' = n
    /\ th' = [th EXCEPT ![p] = [t EXCEPT !.changed = @ \/ n # nms]]
    /\ streak' = IF t.pc = "done" /\ t.op = "ensure_export"
                    THEN [on |-> TRUE, vol |-> t.vol,
                          first |-> t.ignored \cup t.assumed]
                    ELSE [on |-> FALSE, vol |-> t.vol, first |-> {}]
    /\ aborted' = IF t.pc = "raised" /\ m # "zvol.create"
                     /\ t.op \in {"create_export", "ensure_export", "create_volume"}
                     THEN aborted \cup {t.vol} ELSE aborted

----------------------------------------------------------------------------
(* Texts the driver takes apart.  Such a text is a sequence of pieces: the  *)
(* characters of a pool or volume name one by one, and one piece for a      *)
(* separator, a host name or the prefix of a snapshot name.                 *)

RECURSIVE Join(_)
\* the text as one string
Join(text) ==
    IF text = <<>> THEN "" ELSE Head(text) \o Join(Tail(text))

RECURSIVE split(_, _)
\* text.split(sep)
split(text, sep) ==
    IF \A i \in 1..Len(text) : text[i] # sep THEN <<text>>
    ELSE LET i == CHOOSE k \in 1..Len(text) :
                     text[k] = sep /\ \A j \in 1..(k - 1) : text[j] # sep
         IN <<SubSeq(text, 1, i - 1)>>
                \o split(SubSeq(text, i + 1, Len(text)), sep)

\* text.startswith(prefix)
startswith(text, prefix) ==
    /\ Len(text) >= Len(prefix)
    /\ SubSeq(text, 1, Len(prefix)) = prefix

RECURSIVE lstrip(_, _)
\* text.lstrip(chars): the leading characters that occur in chars are dropped
lstrip(text, chars) ==
    IF text # <<>> /\ Head(text) \in chars THEN lstrip(Tail(text), chars)
    ELSE text

\* the places of text at which sub occurs, counted from 0
Occurrences(text, sub) ==
    {i \in 0..(Len(text) - Len(sub)) : SubSeq(text, i + 1, i + Len(sub)) = sub}

\* text.index(sub) raises ValueError when sub does not occur in text
index_raises(text, sub) ==
    Occurrences(text, sub) = {}

\* text.index(sub) otherwise: the first place
index(text, sub) ==
    CHOOSE i \in Occurrences(text, sub) : \A j \in Occurrences(text, sub) : i <= j

\* d.get(key)
dict_get(d, key) ==
    IF key \in DOMAIN d THEN d[key] ELSE None

\* configuration.nexenta_volume, character by character
nexenta_volume_text == <<"t", "a", "n", "k">>

\* the characters of '%s/' % self.configuration.nexenta_volume
nexenta_volume_chars ==
    {nexenta_volume_text[i] : i \in 1..Len(nexenta_volume_text)} \cup {"/"}

\* volume['id'] of the volume named volume_name
VolumeId(volume_name) == "id-" \o volume_name

_get_clone_snapshot_name(volume_name) ==
    "cinder-clone-snapshot-" \o VolumeId(volume_name)

\* variant: every snapshot passes for the origin of a clone
_is_clone_snapshot_name_any(snapshot) ==
    LET parts == split(snapshot, "@")
        name == parts[Len(parts)]
    IN startswith(name, <<>>)

_is_clone_snapshot_name(snapshot) ==
    LET parts == split(snapshot, "@")
        name == parts[Len(parts)]
    IN startswith(name, <<"cinder-clone-snapshot-">>)

\* the volume the clones of the model are made from
SourceVolume == "src"

SourceVolumeText == <<"s", "r", "c">>

\* the values of the origin property: the snapshot volume v1 was cloned
\* from by create_cloned_volume, a snapshot of another name, and the clone
\* snapshot of a source volume named like the pool
CloneOrigin ==
    nexenta_volume_text \o <<"/">> \o SourceVolumeText
        \o <<"@", "cinder-clone-snapshot-", VolumeId("v1")>>

UserOrigin ==
    nexenta_volume_text \o <<"/">> \o SourceVolumeText \o <<"@", "snap0">>

\* a source volume whose name begins with a character of the pool name
PoolLikeVolumeText == <<"k", "i", "t">>

\* the snapshot v1 was cloned from when its source volume is that one
PoolLikeCloneOrigin ==
    nexenta_volume_text \o <<"/">> \o PoolLikeVolumeText
        \o <<"@", "cinder-clone-snapshot-", VolumeId("v1")>>

CloneOrigins == {CloneOrigin, PoolLikeCloneOrigin}

Origins == CloneOrigins \cup {UserOrigin}

\* what zvol.get_child_props(zvol, 'origin') returns: nothing, a dictionary
\* with an empty origin, or one with an origin
PropsValues ==
    {None, [origin |-> <<>>]} \cup {[origin |-> o] : o \in Origins}

----------------------------------------------------------------------------
(* Decisions of the driver code *)

\* _target_exists, after its first list_targets: `if not targets: return
\* False`, otherwise list_targets is called a second time
_target_exists_first(targets) ==
    targets # {}

\* _target_exists, result: `target in self.nms.stmf.list_targets()`
_target_exists(targets, target) ==
    target \in targets

\* variant: any group at all counts as the volume's group
_target_group_exists_any(groups, target_group) ==
    groups # {}


_target_group_exists(groups, target_group) ==
    IF groups = {} THEN FALSE ELSE target_group \in groups

_target_member_in_target_group(members, target_member) ==
    IF members = {} THEN FALSE ELSE target_member \in members

\* variant: _lu_exists looks for the longer wording of _is_lu_shared
_lu_exists_reraises_for_zvol(msg) ==
    ~Contains(msg, "does not exist for zvol")

\* _lu_exists, except clause: TRUE when the fault is re-raised
_lu_exists_reraises(msg) ==
    ~Contains(msg, "does not exist")

\* _is_lu_shared: `self.nms.scsidisk.lu_shared(zvol_name) > 0`
_is_lu_shared(count) ==
    count > 0

\* _is_lu_shared, except clause: TRUE when the fault is re-raised
_is_lu_shared_reraises(msg) ==
    ~Contains(msg, "does not exist for zvol")

\* variant: the LU step looks for "already exists" instead of "in use"
_do_export_ignores_lu_wording(k, ensure, msg) ==
    CASE k = 1 -> ensure /\ Contains(msg, "already configured")
      [] k = 2 -> \/ (ensure /\ Contains(msg, "already exists"))
                  \/ Contains(msg, "target must be offline")
      [] k = 3 -> \/ (ensure /\ Contains(msg, "already exists"))
                  \/ Contains(msg, "target must be offline")
      [] k = 4 -> ensure /\ Contains(msg, "already exists")
      [] k = 5 -> ~(~ensure \/ ~Contains(msg, "view entry exists"))

\* variant: the target step looks for "already exists" instead of "already
\* configured"
_do_export_ignores_target_wording(k, ensure, msg) ==
    CASE k = 1 -> ensure /\ Contains(msg, "already exists")
      [] k = 2 -> \/ (ensure /\ Contains(msg, "already exists"))
                  \/ Contains(msg, "target must be offline")
      [] k = 3 -> \/ (ensure /\ Contains(msg, "already exists"))
                  \/ Contains(msg, "target must be offline")
      [] k = 4 -> ~(~ensure \/ ~Contains(msg, "in use"))
      [] k = 5 -> ~(~ensure \/ ~Contains(msg, "view entry exists"))

\* variant: the LU step ignores every fault while ensuring
_do_export_ignores_any_lu_fault(k, ensure, msg) ==
    CASE k = 1 -> ensure /\ Contains(msg, "already configured")
      [] k = 2 -> \/ (ensure /\ Contains(msg, "already exists"))
                  \/ Contains(msg, "target must be offline")
      [] k = 3 -> \/ (ensure /\ Contains(msg, "already exists"))
                  \/ Contains(msg, "target must be offline")
      [] k = 4 -> ensure
      [] k = 5 -> ~(~ensure \/ ~Contains(msg, "view entry exists"))

\* variant: the LUN mapping step looks for "already exists" instead of "view
\* entry exists"
_do_export_ignores_mapping_wording(k, ensure, msg) ==
    CASE k = 1 -> ensure /\ Contains(msg, "already configured")
      [] k = 2 -> \/ (ensure /\ Contains(msg, "already exists"))
                  \/ Contains(msg, "target must be offline")
      [] k = 3 -> \/ (ensure /\ Contains(msg, "already exists"))
                  \/ Contains(msg, "target must be offline")
      [] k = 4 -> ~(~ensure \/ ~Contains(msg, "in use"))
      [] k = 5 -> ~(~ensure \/ ~Contains(msg, "already exists"))

\* _do_export, the except clause of creation step k (1 target, 2 target
\* group, 3 membership, 4 LU, 5 LUN mapping): TRUE when the fault of the
\* creation call is logged and ignored, FALSE when it is re-raised
_do_export_ignores(k, ensure, msg) ==
    CASE k = 1 -> ensure /\ Contains(msg, "already configured")
      [] k = 2 -> \/ (ensure /\ Contains(msg, "already exists"))
                  \/ Contains(msg, "target must be offline")
      [] k = 3 -> \/ (ensure /\ Contains(msg, "already exists"))
                  \/ Contains(msg, "target must be offline")
      [] k = 4 -> ~(~ensure \/ ~Contains(msg, "in use"))
      [] k = 5 -> ~(~ensure \/ ~Contains(msg, "view entry exists"))

\* what the caller of _do_export returns once the sequence is over:
\* create_export (and create_volume through it) the provider location,
\* ensure_export nothing
ExportResult(t) ==
    IF t.op = "ensure_export" THEN None
    ELSE <<_get_provider_location(t.vol)>>

\* variant: the creation call is issued whatever the check returned
AfterCheck_unguarded(t, k, present) ==
    Goto(IF present THEN [t EXCEPT !.found = @ \cup {k}] ELSE t, CreateOf(k))

\* _do_export, `if not <existence check of step k>:` the creation call of
\* step k is issued only when the check returned False; otherwise the next
\* step's check follows (after step 5 the sequence is over)
AfterCheck(t, k, present) ==
    IF present
    THEN LET u == [t EXCEPT !.found = @ \cup {k}]
         IN IF k = 5 THEN Return(u, ExportResult(u)) ELSE Goto(u, CheckOf(k + 1))
    ELSE Goto(t, CreateOf(k))

\* _lu_exists and _is_lu_shared: a fault of the check that is not re-raised
\* makes the check return False
AfterCheckFault(t, k, reraises, msg) ==
    IF reraises THEN Raise(t, NexentaException(msg))
    ELSE Goto([t EXCEPT !.assumed = @ \cup {k}], CreateOf(k))

\* variant: an ignored fault ends the sequence
AfterCreate_stops(t, k, r) ==
    IF r.ok
    THEN IF k = 5 THEN Return(t, ExportResult(t)) ELSE Goto(t, CheckOf(k + 1))
    ELSE IF _do_export_ignores(k, t.ensure, r.msg)
         THEN Return([t EXCEPT !.ignored = @ \cup {k}], ExportResult(t))
         ELSE Raise(t, NexentaException(r.msg))

\* variant: a fault that is not ignored undoes the export before it is
\* raised
AfterCreate_rolls_back(t, k, r) ==
    IF r.ok \/ _do_export_ignores(k, t.ensure, r.msg)
    THEN LET u == IF r.ok THEN t ELSE [t EXCEPT !.ignored = @ \cup {k}]
         IN IF k = 5 THEN Return(u, ExportResult(u)) ELSE Goto(u, CheckOf(k + 1))
    ELSE Goto([t EXCEPT !.exc = NexentaException(r.msg)], "scsidisk.delete_lu")

\* variant: the sequence goes on after a fault that is not ignored
AfterCreate_goes_on(t, k, r) ==
    IF k = 5 THEN Return(t, ExportResult(t)) ELSE Goto(t, CheckOf(k + 1))

\* _do_export, the reply to the creation call of step k: go on with the next
\* step (or return, after step 5) on success and on an ignored fault, else
\* re-raise
AfterCreate(t, k, r) ==
    IF r.ok \/ _do_export_ignores(k, t.ensure, r.msg)
    THEN LET u == IF r.ok THEN t ELSE [t EXCEPT !.ignored = @ \cup {k}]
         IN IF k = 5 THEN Return(u, ExportResult(u)) ELSE Goto(u, CheckOf(k + 1))
    ELSE Raise(t, NexentaException(r.msg))

\* variant: delete_lu is guarded like the other two calls
AfterRemove_guarded_lu(t, k, r) ==
    CASE k = 4 -> Goto(IF r.ok THEN t ELSE [t EXCEPT !.ignored = @ \cup {k}],
                       "stmf.destroy_targetgroup")
      [] k = 2 -> Goto(IF r.ok THEN t ELSE [t EXCEPT !.ignored = @ \cup {k}],
                       "iscsitarget.delete_target")
      [] k = 1 -> Return(IF r.ok THEN t ELSE [t EXCEPT !.ignored = @ \cup {k}],
                         None)

\* variant: one try block around both calls, so that a fault of
\* destroy_targetgroup skips delete_target
AfterRemove_one_try(t, k, r) ==
    CASE k = 4 -> IF r.ok THEN Goto(t, "stmf.destroy_targetgroup")
                  ELSE Raise(t, NexentaException(r.msg))
      [] k = 2 -> IF r.ok THEN Goto(t, "iscsitarget.delete_target")
                  ELSE Return([t EXCEPT !.ignored = @ \cup {k}], None)
      [] k = 1 -> Return(IF r.ok THEN t ELSE [t EXCEPT !.ignored = @ \cup {k}],
                         None)

\* remove_export, the reply to its call k (4 delete_lu, 2
\* destroy_targetgroup, 1 delete_target): delete_lu is not guarded, the
\* other two log any NexentaException and go on
AfterRemove(t, k, r) ==
    CASE k = 4 -> IF r.ok THEN Goto(t, "stmf.destroy_targetgroup")
                  ELSE Raise(t, NexentaException(r.msg))
      [] k = 2 -> Goto(IF r.ok THEN t ELSE [t EXCEPT !.ignored = @ \cup {k}],
                       "iscsitarget.delete_target")
      [] k = 1 -> Return(IF r.ok THEN t ELSE [t EXCEPT !.ignored = @ \cup {k}],
                         None)

\* create_volume, the reply to zvol.create: not guarded; then create_export
AfterZvolCreate(t, r) ==
    IF r.ok THEN Goto(t, CheckOf(1)) ELSE Raise(t, NexentaException(r.msg))

----------------------------------------------------------------------------
(* Driver calls, one remote call at a time *)

\* how the appliance's readiness to serve calls compares with the last call:
\* unchanged since an ensure_export that just returned, fault-free, or anything
Modes == {"same", "fault-free", "any"}

\* a caller enters create_export, ensure_export, remove_export or
\* create_volume for volume v
Start(p, op, v, mode) ==
    /\ th[p].pc \in {"idle", "done", "raised"}
    /\ mode = "same" => (op = "ensure_export" /\ streak.on /\ streak.vol = v)
    /\ th' = [th EXCEPT ![p] =
                [ Idle EXCEPT !.pc = Entry(op), !.op = op, !.vol = v,
                              !.ensure = (op = "ensure_export"),
                              !.absent = Absent(nms, v),
                              !.second = (mode = "same"),
                              !.first = IF mode = "same" THEN streak.first
                                        ELSE {},
                              !.faultfree = (mode = "fault-free"),
                              !.after_abort = (v \in aborted) ]]
    /\ cond' = CASE mode = "same" -> cond
                 [] mode = "fault-free" -> [m \in Methods |-> Healthy]
                 [] OTHER -> [m \in Methods |-> Undetermined]
    /\ streak' = [on |-> FALSE, vol |-> v, first |-> {}]
    /\ UNCHANGED <<nms, aborted>>

\* create_volume: self.nms.zvol.create(...), then create_export
zvol_create(p) ==
    /\ th[p].pc = "zvol.create"
    /\ \E c \in Conditions("zvol.create") :
         LET arg == <<_get_zvol_name(th[p].vol), "5G", "4096", "False">>
             r == Reply("zvol.create", arg, c)
             t == Called(th[p], "zvol.create", arg, r)
         IN Commit(p, "zvol.create", c, r.nms, AfterZvolCreate(t, r))

\* _target_exists: targets = self.nms.stmf.list_targets()
list_targets_first(p) ==
    /\ th[p].pc = "stmf.list_targets"
    /\ \E c \in Conditions("stmf.list_targets") :
         LET r == Reply("stmf.list_targets", <<>>, c)
             t == Called(th[p], "stmf.list_targets", <<>>, r)
         IN Commit(p, "stmf.list_targets", c, r.nms,
                   IF ~r.ok THEN Raise(t, NexentaException(r.msg))
                   ELSE IF _target_exists_first(list_targets(r.nms))
                        THEN Goto(t, "stmf.list_targets again")
                        ELSE AfterCheck(t, 1, FALSE))

\* _target_exists: return target in self.nms.stmf.list_targets()
list_targets_second(p) ==
    /\ th[p].pc = "stmf.list_targets again"
    /\ \E c \in Conditions("stmf.list_targets") :
         LET r == Reply("stmf.list_targets", <<>>, c)
             t == Called(th[p], "stmf.list_targets", <<>>, r)
         IN Commit(p, "stmf.list_targets", c, r.nms,
                   IF ~r.ok THEN Raise(t, NexentaException(r.msg))
                   ELSE AfterCheck(t, 1, _target_exists(list_targets(r.nms),
                                                  _get_target_name(t.vol))))

create_target(p) ==
    /\ th[p].pc = "iscsitarget.create_target"
    /\ \E c \in Conditions("iscsitarget.create_target") :
         LET arg == <<_get_target_name(th[p].vol)>>
             r == Reply("iscsitarget.create_target", arg, c)
             t == Called(th[p], "iscsitarget.create_target", arg, r)
         IN Commit(p, "iscsitarget.create_target", c, r.nms,
                   AfterCreate(t, 1, r))

list_targetgroups_call(p) ==
    /\ th[p].pc = "stmf.list_targetgroups"
    /\ \E c \in Conditions("stmf.list_targetgroups") :
         LET r == Reply("stmf.list_targetgroups", <<>>, c)
             t == Called(th[p], "stmf.list_targetgroups", <<>>, r)
         IN Commit(p, "stmf.list_targetgroups", c, r.nms,
                   IF ~r.ok THEN Raise(t, NexentaException(r.msg))
                   ELSE AfterCheck(t, 2,
                            _target_group_exists(list_targetgroups(r.nms),
                                         _get_target_group_name(t.vol))))

create_targetgroup(p) ==
    /\ th[p].pc = "stmf.create_targetgroup"
    /\ \E c \in Conditions("stmf.create_targetgroup") :
         LET arg == <<_get_target_group_name(th[p].vol)>>
             r == Reply("stmf.create_targetgroup", arg, c)
             t == Called(th[p], "stmf.create_targetgroup", arg, r)
         IN Commit(p, "stmf.create_targetgroup", c, r.nms,
                   AfterCreate(t, 2, r))

list_targetgroup_members_call(p) ==
    /\ th[p].pc = "stmf.list_targetgroup_members"
    /\ \E c \in Conditions("stmf.list_targetgroup_members") :
         LET arg == <<_get_target_group_name(th[p].vol)>>
             r == Reply("stmf.list_targetgroup_members", arg, c)
             t == Called(th[p], "stmf.list_targetgroup_members", arg, r)
         IN Commit(p, "stmf.list_targetgroup_members", c, r.nms,
                   IF ~r.ok THEN Raise(t, NexentaException(r.msg))
                   ELSE AfterCheck(t, 3,
                            _target_member_in_target_group(
                                list_targetgroup_members(r.nms, arg[1]),
                                _get_target_name(t.vol))))

add_targetgroup_member(p) ==
    /\ th[p].pc = "stmf.add_targetgroup_member"
    /\ \E c \in Conditions("stmf.add_targetgroup_member") :
         LET arg == <<_get_target_group_name(th[p].vol),
                      _get_target_name(th[p].vol)>>
             r == Reply("stmf.add_targetgroup_member", arg, c)
             t == Called(th[p], "stmf.add_targetgroup_member", arg, r)
         IN Commit(p, "stmf.add_targetgroup_member", c, r.nms,
                   AfterCreate(t, 3, r))

\* _lu_exists
lu_exists_call(p) ==
    /\ th[p].pc = "scsidisk.lu_exists"
    /\ \E c \in Conditions("scsidisk.lu_exists") :
         LET arg == <<_get_zvol_name(th[p].vol)>>
             r == Reply("scsidisk.lu_exists", arg, c)
             t == Called(th[p], "scsidisk.lu_exists", arg, r)
         IN Commit(p, "scsidisk.lu_exists", c, r.nms,
                   IF r.ok THEN AfterCheck(t, 4, lu_exists(r.nms, arg[1]))
                   ELSE AfterCheckFault(t, 4, _lu_exists_reraises(r.msg),
                                        r.msg))

create_lu(p) ==
    /\ th[p].pc = "scsidisk.create_lu"
    /\ \E c \in Conditions("scsidisk.create_lu") :
         LET arg == <<_get_zvol_name(th[p].vol)>>
             r == Reply("scsidisk.create_lu", arg, c)
             t == Called(th[p], "scsidisk.create_lu", arg, r)
         IN Commit(p, "scsidisk.create_lu", c, r.nms, AfterCreate(t, 4, r))

\* _is_lu_shared
lu_shared_call(p) ==
    /\ th[p].pc = "scsidisk.lu_shared"
    /\ \E c \in Conditions("scsidisk.lu_shared") :
         LET arg == <<_get_zvol_name(th[p].vol)>>
             r == Reply("scsidisk.lu_shared", arg, c)
             t == Called(th[p], "scsidisk.lu_shared", arg, r)
         IN Commit(p, "scsidisk.lu_shared", c, r.nms,
                   IF r.ok
                   THEN AfterCheck(t, 5, _is_lu_shared(lu_shared(r.nms, arg[1])))
                   ELSE AfterCheckFault(t, 5, _is_lu_shared_reraises(r.msg),
                                        r.msg))

add_lun_mapping_entry(p) ==
    /\ th[p].pc = "scsidisk.add_lun_mapping_entry"
    /\ \E c \in Conditions("scsidisk.add_lun_mapping_entry") :
         LET arg == <<_get_zvol_name(th[p].vol),
                      _get_target_group_name(th[p].vol), "0">>
             r == Reply("scsidisk.add_lun_mapping_entry", arg, c)
             t == Called(th[p], "scsidisk.add_lun_mapping_entry", arg, r)
         IN Commit(p, "scsidisk.add_lun_mapping_entry", c, r.nms,
                   AfterCreate(t, 5, r))

\* remove_export: self.nms.scsidisk.delete_lu(zvol_name)
delete_lu(p) ==
    /\ th[p].pc = "scsidisk.delete_lu"
    /\ \E c \in Conditions("scsidisk.delete_lu") :
         LET arg == <<_get_zvol_name(th[p].vol)>>
             r == Reply("scsidisk.delete_lu", arg, c)
             t == Called(th[p], "scsidisk.delete_lu", arg, r)
         IN Commit(p, "scsidisk.delete_lu", c, r.nms, AfterRemove(t, 4, r))

\* remove_export: self.nms.stmf.destroy_targetgroup(target_group_name)
destroy_targetgroup(p) ==
    /\ th[p].pc = "stmf.destroy_targetgroup"
    /\ \E c \in Conditions("stmf.destroy_targetgroup") :
         LET arg == <<_get_target_group_name(th[p].vol)>>
             r == Reply("stmf.destroy_targetgroup", arg, c)
             t == Called(th[p], "stmf.destroy_targetgroup", arg, r)
         IN Commit(p, "stmf.destroy_targetgroup", c, r.nms,
                   AfterRemove(t, 2, r))

\* remove_export: self.nms.iscsitarget.delete_target(target_name)
delete_target(p) ==
    /\ th[p].pc = "iscsitarget.delete_target"
    /\ \E c \in Conditions("iscsitarget.delete_target") :
         LET arg == <<_get_target_name(th[p].vol)>>
             r == Reply("iscsitarget.delete_target", arg, c)
             t == Called(th[p], "iscsitarget.delete_target", arg, r)
         IN Commit(p, "iscsitarget.delete_target", c, r.nms,
                   AfterRemove(t, 1, r))

----------------------------------------------------------------------------
(* The volume and snapshot methods: what each does with the reply to its    *)
(* remote call, and where a method that is over hands control back.         *)

Push(t, f, pc) ==
    [t EXCEPT !.frames = Append(@, f), !.pc = pc]

\* delete_snapshot: the exception it leaves with after a failed
\* snapshot.destroy, NoExc when it returns
\* variant: the shorter wording 'dependent clones' is looked for
delete_snapshot_exc_short(snapshot, msg) ==
    CASE Contains(msg, "does not exist") -> NoExc
      [] Contains(msg, "dependent clones") -> SnapshotIsBusy(snapshot.name)
      [] OTHER -> NexentaException(msg)

delete_snapshot_exc(snapshot, msg) ==
    CASE Contains(msg, "does not exist") -> NoExc
      [] Contains(msg, "snapshot has dependent clones")
            -> SnapshotIsBusy(snapshot.name)
      [] OTHER -> NexentaException(msg)

\* delete_volume: the exception it leaves with after a failed zvol.destroy
\* variant: the shorter wording 'has children' is looked for
delete_volume_exc_short(volume_name, msg) ==
    CASE Contains(msg, "does not exist") -> NoExc
      [] Contains(msg, "has children") -> VolumeIsBusy(volume_name)
      [] OTHER -> NexentaException(msg)

\* variant: a volume that does not exist is not taken for deleted
delete_volume_exc_strict(volume_name, msg) ==
    CASE Contains(msg, "zvol has children") -> VolumeIsBusy(volume_name)
      [] OTHER -> NexentaException(msg)

delete_volume_exc(volume_name, msg) ==
    CASE Contains(msg, "does not exist") -> NoExc
      [] Contains(msg, "zvol has children") -> VolumeIsBusy(volume_name)
      [] OTHER -> NexentaException(msg)

\* the except clauses around the nested calls
delete_volume_catches(e) ==
    e.type = "NexentaException"

create_cloned_volume_catches(e) ==
    e.type \in {"NexentaException", "SnapshotIsBusy"}

migrate_volume_catches(e) ==
    e.type = "NexentaException"

\* the bare `raise` that ends the handler of create_cloned_volume, original
\* being the exception the handler was entered with and last the one its
\* inner try statement caught, NoExc if none.  The module is Python 2 code
\* (`except nexenta.NexentaException, e:`), where a bare raise re-raises the
\* exception handled last in the frame.
reraise(original, last) ==
    IF last = NoExc THEN original ELSE last

false_ret == <<FALSE, None>>

\* the innermost method of t, its caller, and t with the method left
Top(t) == t.frames[Len(t.frames)]

Caller(t) == t.frames[Len(t.frames) - 1]

Pop(t) == [t EXCEPT !.frames = SubSeq(@, 1, Len(@) - 1)]

RECURSIVE Finish(_, _)
\* the innermost method of t is over, with exception e or, if e is NoExc,
\* by returning: its caller goes on, or the driver call is over
Finish(t, e) ==
    CASE Len(t.frames) = 1 ->
           IF e = NoExc THEN Return(Pop(t), t.ret) ELSE Raise(Pop(t), e)
      [] Len(t.frames) > 1 /\ Caller(t) = "delete_volume" ->
           \* try: self.delete_snapshot(...) except NexentaException
           IF e = NoExc \/ delete_volume_catches(e)
              THEN Finish(Pop(t), NoExc)
              ELSE Finish(Pop(t), e)
      [] Len(t.frames) > 1 /\ Caller(t) = "create_cloned_volume" ->
           (CASE Top(t) = "create_snapshot" ->
                  IF e = NoExc
                     THEN Push(Pop(t), "create_volume_from_snapshot",
                               "zvol.clone")
                     ELSE Finish(Pop(t), e)
             [] Top(t) = "create_volume_from_snapshot" ->
                  IF e = NoExc THEN Finish(Pop(t), NoExc)
                  ELSE IF e.type = "NexentaException"
                     THEN Push([Pop(t) EXCEPT !.pending =
                                   [kind |-> "raise", exc |-> e]],
                               "delete_snapshot", "snapshot.destroy")
                     ELSE Finish(Pop(t), e)
             [] Top(t) = "delete_snapshot" ->
                  IF e = NoExc \/ create_cloned_volume_catches(e)
                     THEN Finish(Pop(t), reraise(Pop(t).pending.exc, e))
                     ELSE Finish(Pop(t), e))
      [] Len(t.frames) > 1 /\ Caller(t) = "migrate_volume" ->
           (CASE Top(t) = "create_snapshot" ->
                  IF e = NoExc THEN Goto(Pop(t), "appliance.execute")
                  ELSE Finish(Pop(t), e)
             [] Top(t) = "delete_snapshot" ->
                  \* the finally clause of the replication step
                  IF e = NoExc \/ migrate_volume_catches(e)
                     THEN (CASE Pop(t).pending.kind = "return" ->
                                 Finish([Pop(t) EXCEPT !.ret = false_ret],
                                        NoExc)
                            [] Pop(t).pending.kind = "raise" ->
                                 Finish(Pop(t), Pop(t).pending.exc)
                            [] OTHER ->
                                 Push(Pop(t), "delete_volume",
                                      "zvol.get_child_props"))
                     ELSE Finish(Pop(t), e)
             [] Top(t) = "delete_volume" ->
                  IF e = NoExc \/ migrate_volume_catches(e)
                     THEN Goto(Pop(t), "dst.snapshot.destroy")
                     ELSE Finish(Pop(t), e))

\* delete_volume after zvol.get_child_props: `... or {}`, unguarded
AfterGetChildProps(t, r, props) ==
    IF ~r.ok THEN Finish(t, NexentaException(r.msg))
    ELSE Goto([t EXCEPT !.props = props], "zvol.destroy")

\* delete_volume after zvol.destroy
AfterDestroy(t, r) ==
    IF ~r.ok THEN Finish(t, delete_volume_exc(_get_zvol_name(t.vol), r.msg))
    ELSE LET origin == dict_get(t.props, "origin")
         IN IF origin # <<>> /\ _is_clone_snapshot_name(origin)
               THEN LET parts == split(origin, "@")
                    IN IF Len(parts) # 2 THEN Finish(t, ValueError)
                       ELSE Push([t EXCEPT !.snapshot =
                                    [ volume_name |->
                                        Join(lstrip(parts[1],
                                                    nexenta_volume_chars)),
                                      name |-> Join(parts[2]) ]],
                                 "delete_snapshot", "snapshot.destroy")
               ELSE Finish(t, NoExc)

\* delete_snapshot after snapshot.destroy
AfterSnapshotDestroy(t, r) ==
    IF r.ok THEN Finish(t, NoExc)
    ELSE Finish(t, delete_snapshot_exc(t.snapshot, r.msg))

\* create_snapshot after zvol.create_snapshot, create_volume_from_snapshot
\* after zvol.clone: no try statement
AfterUnguarded(t, r) ==
    IF r.ok THEN Finish(t, NoExc) ELSE Finish(t, NexentaException(r.msg))

----------------------------------------------------------------------------
(* migrate_volume *)

\* volume['size']
VolumeSize == 5

Statuses == {"available", "in-use"}

\* self.__class__.__name__
ClassName == "NexentaISCSIDriver"

get_migrate_snapshot_name(volume_name) ==
    "cinder-migrate-snapshot-" \o VolumeId(volume_name)

\* the capabilities of a destination the volume can be migrated to
GoodCapabilities ==
    [ vendor_name |-> "Nexenta",
      location_info |-> <<ClassName, ":", "host2", ":", "tank2">>,
      iscsi_target_portal_port |-> 3260,
      nms_url |-> "http://host2:2000",
      free_capacity_gb |-> VolumeSize + 1 ]

Without(d, key) ==
    [k \in DOMAIN d \ {key} |-> d[k]]

CapabilitiesValues ==
    {GoodCapabilities}
    \cup {Without(GoodCapabilities, k) : k \in DOMAIN GoodCapabilities}
    \cup { [GoodCapabilities EXCEPT !.vendor_name = "Other"],
           [GoodCapabilities EXCEPT
               !.location_info =
                   <<"LVMISCSIDriver", ":", "host2", ":", "tank2">>],
           [GoodCapabilities EXCEPT
               !.location_info = <<ClassName, ":", "host2">>],
           [GoodCapabilities EXCEPT !.free_capacity_gb = VolumeSize],
           [GoodCapabilities EXCEPT !.free_capacity_gb = VolumeSize - 1] }

\* the destination descriptors: with capabilities, or without any
Hosts ==
    {[host |-> "node2", capabilities |-> c] : c \in CapabilitiesValues}
    \cup {[host |-> "node2"]}

\* the lists appliance.ssh_list_bindings returns: a binding of the
\* destination host, a binding of another host
BindingsValues ==
    { <<>>, << <<"root@", "host2">> >>, << <<"root@", "host3">> >>,
      << <<"root@", "host3">>, <<"root@", "host2">> >> }

\* the statements of migrate_volume before its first remote call: go on
\* (go), return false_ret (exc is NoExc) or raise exc
migrate_volume_check(status, size, host) ==
    LET capabilities == host.capabilities
        dst_parts == split(capabilities.location_info, ":")
        stop(e) == [go |-> FALSE, exc |-> e]
    IN  CASE status # "available" -> stop(NoExc)
          [] "capabilities" \notin DOMAIN host -> stop(NoExc)
          [] \/ "location_info" \notin DOMAIN capabilities
             \/ "iscsi_target_portal_port" \notin DOMAIN capabilities
             \/ "nms_url" \notin DOMAIN capabilities -> stop(NoExc)
          [] \/ "vendor_name" \notin DOMAIN capabilities
             \/ capabilities.vendor_name # "Nexenta" -> stop(NoExc)
          [] Join(dst_parts[1]) # ClassName -> stop(NoExc)
          [] "free_capacity_gb" \notin DOMAIN capabilities ->
                stop(KeyError("free_capacity_gb"))
          [] capabilities.free_capacity_gb < size -> stop(NoExc)
          [] Len(dst_parts) - 1 # 2 -> stop(ValueError)
          [] OTHER -> [go |-> TRUE, exc |-> NoExc]

\* dst_host, dst_volume = dst_parts[1:]
dst_host(host) == split(host.capabilities.location_info, ":")[2]

dst_volume(host) == split(host.capabilities.location_info, ":")[3]

RECURSIVE ssh_bound(_, _)
\* the loop over the bindings: "bound" (break), "unbound", or "ValueError"
\* out of bind.index
ssh_bound(ssh_bindings, host_text) ==
    CASE ssh_bindings = <<>> -> "unbound"
      [] ssh_bindings # <<>> /\ index_raises(Head(ssh_bindings), host_text)
            -> "ValueError"
      [] OTHER -> IF index(Head(ssh_bindings), host_text) # -1 THEN "bound"
                  ELSE ssh_bound(Tail(ssh_bindings), host_text)

\* after appliance.ssh_list_bindings, which no try statement guards
AfterSshListBindings(t, r, ssh_bindings) ==
    IF ~r.ok THEN Finish(t, NexentaException(r.msg))
    ELSE IF ssh_bound(ssh_bindings, dst_host(t.host)) = "ValueError"
       THEN Finish(t, ValueError)
       ELSE Push([t EXCEPT !.snapshot =
                    [ volume_name |-> t.vol,
                      name |-> get_migrate_snapshot_name(t.vol) ]],
                 "create_snapshot", "zvol.create_snapshot")

\* after appliance.execute: the finally clause deletes the snapshot
\* variant: a failed replication returns at once
AfterExecute_returns(t, r) ==
    IF r.ok
       THEN Push([t EXCEPT !.pending = [kind |-> "fall", exc |-> NoExc]],
                 "delete_snapshot", "snapshot.destroy")
       ELSE Finish([t EXCEPT !.ret = false_ret], NoExc)

\* variant: the workflow goes on after a failed replication
AfterExecute_goes_on(t, r) ==
    Push([t EXCEPT !.pending = [kind |-> "fall", exc |-> NoExc]],
         "delete_snapshot", "snapshot.destroy")

AfterExecute(t, r) ==
    Push([t EXCEPT !.pending = IF r.ok THEN [kind |-> "fall", exc |-> NoExc]
                               ELSE [kind |-> "return", exc |-> NoExc]],
         "delete_snapshot", "snapshot.destroy")

\* appliance.execute leaves with an exception that is no NexentaException
AfterExecuteUnexpected(t) ==
    Push([t EXCEPT !.pending = [kind |-> "raise", exc |-> UnexpectedError]],
         "delete_snapshot", "snapshot.destroy")

migrate_provider_location(host, volume_name) ==
    Join(dst_host(host)) \o ":"
        \o ToString(host.capabilities.iscsi_target_portal_port)
        \o ",1 " \o _get_target_name(volume_name) \o " 0"

\* after dst_nms.snapshot.destroy, whose NexentaException is logged
AfterDstSnapshotDestroy(t, r) ==
    Finish([t EXCEPT !.ret =
              <<TRUE, [provider_location |->
                          migrate_provider_location(t.host, t.vol)]>>],
           NoExc)

----------------------------------------------------------------------------
(* Volume, snapshot and migration calls, one remote call at a time *)

LifecycleOps ==
    {"delete_volume", "create_cloned_volume", "create_snapshot",
     "delete_snapshot"}

\* the snapshot references given to create_snapshot and delete_snapshot
SnapshotRefs == {[volume_name |-> "v1", name |-> "snap1"]}

\* a caller enters delete_volume or create_cloned_volume for volume v (the
\* clone to make, of SourceVolume), or create_snapshot or delete_snapshot
\* for a snapshot
Begin(p, op, v, snapshot) ==
    /\ th[p].pc \in {"idle", "done", "raised"}
    /\ th' = [th EXCEPT ![p] =
                CASE op = "delete_volume" ->
                       [ Idle EXCEPT !.pc = "zvol.get_child_props", !.op = op,
                                     !.vol = v, !.frames = <<op>> ]
                  [] op = "create_cloned_volume" ->
                       [ Idle EXCEPT !.pc = "zvol.create_snapshot", !.op = op,
                                     !.vol = v,
                                     !.frames = <<op, "create_snapshot">>,
                                     !.snapshot =
                                       [ volume_name |-> SourceVolume,
                                         name |->
                                           _get_clone_snapshot_name(v) ] ]
                  [] op = "create_snapshot" ->
                       [ Idle EXCEPT !.pc = "zvol.create_snapshot", !.op = op,
                                     !.vol = snapshot.volume_name,
                                     !.frames = <<op>>, !.snapshot = snapshot ]
                  [] op = "delete_snapshot" ->
                       [ Idle EXCEPT !.pc = "snapshot.destroy", !.op = op,
                                     !.vol = snapshot.volume_name,
                                     !.frames = <<op>>, !.snapshot = snapshot ]]
    /\ cond' = [m \in Methods |-> Undetermined]
    /\ streak' = [on |-> FALSE, vol |-> v, first |-> {}]
    /\ UNCHANGED <<nms, aborted>>

\* a caller enters migrate_volume and runs up to its first remote call
BeginMigrate(p, v, status, host) ==
    /\ th[p].pc \in {"idle", "done", "raised"}
    /\ LET check == migrate_volume_check(status, VolumeSize, host)
           t == [ Idle EXCEPT !.op = "migrate_volume", !.vol = v,
                              !.status = status, !.host = host,
                              !.frames = <<"migrate_volume">> ]
       IN th' = [th EXCEPT ![p] =
                   CASE check.go -> Goto(t, "appliance.ssh_list_bindings")
                     [] ~check.go /\ check.exc = NoExc ->
                          Finish([t EXCEPT !.ret = false_ret], NoExc)
                     [] OTHER -> Finish(t, check.exc)]
    /\ cond' = [m \in Methods |-> Undetermined]
    /\ streak' = [on |-> FALSE, vol |-> v, first |-> {}]
    /\ UNCHANGED <<nms, aborted>>

get_child_props(p) ==
    /\ th[p].pc = "zvol.get_child_props"
    /\ \E c \in Conditions("zvol.get_child_props") :
         LET arg == <<_get_zvol_name(th[p].vol), "origin">>
             r == Reply("zvol.get_child_props", arg, c)
             t == Called(th[p], "zvol.get_child_props", arg, r)
         IN Commit(p, "zvol.get_child_props", c, r.nms,
                   AfterGetChildProps(t, r, nms.props))

zvol_destroy(p) ==
    /\ th[p].pc = "zvol.destroy"
    /\ \E c \in Conditions("zvol.destroy") :
         LET arg == <<_get_zvol_name(th[p].vol), "">>
             r == Reply("zvol.destroy", arg, c)
             t == Called(th[p], "zvol.destroy", arg, r)
         IN Commit(p, "zvol.destroy", c, r.nms, AfterDestroy(t, r))

snapshot_destroy(p) ==
    /\ th[p].pc = "snapshot.destroy"
    /\ \E c \in Conditions("snapshot.destroy") :
         LET arg == << _get_zvol_name(th[p].snapshot.volume_name) \o "@"
                          \o th[p].snapshot.name, "" >>
             r == Reply("snapshot.destroy", arg, c)
             t == Called(th[p], "snapshot.destroy", arg, r)
         IN Commit(p, "snapshot.destroy", c, r.nms, AfterSnapshotDestroy(t, r))

zvol_create_snapshot(p) ==
    /\ th[p].pc = "zvol.create_snapshot"
    /\ \E c \in Conditions("zvol.create_snapshot") :
         LET arg == << _get_zvol_name(th[p].snapshot.volume_name),
                       th[p].snapshot.name, "" >>
             r == Reply("zvol.create_snapshot", arg, c)
             t == Called(th[p], "zvol.create_snapshot", arg, r)
         IN Commit(p, "zvol.create_snapshot", c, r.nms, AfterUnguarded(t, r))

zvol_clone(p) ==
    /\ th[p].pc = "zvol.clone"
    /\ \E c \in Conditions("zvol.clone") :
         LET arg == << _get_zvol_name(th[p].snapshot.volume_name) \o "@"
                          \o th[p].snapshot.name,
                       _get_zvol_name(th[p].vol) >>
             r == Reply("zvol.clone", arg, c)
             t == Called(th[p], "zvol.clone", arg, r)
         IN Commit(p, "zvol.clone", c, r.nms, AfterUnguarded(t, r))

ssh_list_bindings(p) ==
    /\ th[p].pc = "appliance.ssh_list_bindings"
    /\ \E c \in Conditions("appliance.ssh_list_bindings") :
         LET r == Reply("appliance.ssh_list_bindings", <<>>, c)
             t == Called(th[p], "appliance.ssh_list_bindings", <<>>, r)
         IN Commit(p, "appliance.ssh_list_bindings", c, r.nms,
                   AfterSshListBindings(t, r, nms.bindings))

\* src and dst of the replication command
execute_arg(t) ==
    << nexenta_volume \o "/" \o t.vol \o "@" \o t.snapshot.name,
       Join(dst_host(t.host)) \o ":" \o Join(dst_volume(t.host)) >>

appliance_execute(p) ==
    /\ th[p].pc = "appliance.execute"
    /\ \E c \in Conditions("appliance.execute") :
         LET r == Reply("appliance.execute", execute_arg(th[p]), c)
             t == Called(th[p], "appliance.execute", execute_arg(th[p]), r)
         IN Commit(p, "appliance.execute", c, r.nms, AfterExecute(t, r))

\* the call does not come back with a reply of the appliance
appliance_execute_unexpected(p) ==
    /\ th[p].pc = "appliance.execute"
    /\ LET r == [ok |-> FALSE, msg |-> {}, nms |-> nms]
           t == Called(th[p], "appliance.execute", execute_arg(th[p]), r)
       IN Commit(p, "appliance.execute", cond["appliance.execute"], nms,
                 AfterExecuteUnexpected(t))

dst_snapshot_destroy(p) ==
    /\ th[p].pc = "dst.snapshot.destroy"
    /\ \E c \in Conditions("dst.snapshot.destroy") :
         LET arg == << Join(dst_volume(th[p].host)) \o "/" \o th[p].vol \o "@"
                          \o get_migrate_snapshot_name(th[p].vol), "" >>
             r == Reply("dst.snapshot.destroy", arg, c)
             t == Called(th[p], "dst.snapshot.destroy", arg, r)
         IN Commit(p, "dst.snapshot.destroy", c, r.nms,
                   AfterDstSnapshotDestroy(t, r))

----------------------------------------------------------------------------
(* Specification *)

Init ==
    /\ nms \in {EmptyAppliance, OtherTenant}
    /\ cond = [m \in Methods |-> Undetermined]
    /\ th = [p \in Procs |-> Idle]
    /\ streak = [on |-> FALSE, vol |-> "v1", first |-> {}]
    /\ aborted = {}

Step(p) ==
    \/ zvol_create(p)
    \/ list_targets_first(p)
    \/ list_targets_second(p)
    \/ create_target(p)
    \/ list_targetgroups_call(p)
    \/ create_targetgroup(p)
    \/ list_targetgroup_members_call(p)
    \/ add_targetgroup_member(p)
    \/ lu_exists_call(p)
    \/ create_lu(p)
    \/ lu_shared_call(p)
    \/ add_lun_mapping_entry(p)
    \/ delete_lu(p)
    \/ destroy_targetgroup(p)
    \/ delete_target(p)

Next ==
    \/ \E p \in Procs, op \in Ops, v \in Volumes, mode \in Modes :
          Start(p, op, v, mode)
    \/ \E p \in Procs : Step(p)

Spec == Init /\ [][Next]_vars

\* the appliances the volume, snapshot and migration calls start from: the
\* source volume of the clones is there; v1 is absent, or present with one
\* of the origin properties; the origin snapshot, if any, is there too
LifecycleAppliances ==
    { [EmptyAppliance EXCEPT !.zvols = {"tank/src"}, !.bindings = b]
        : b \in BindingsValues }
    \cup
    { [EmptyAppliance EXCEPT
          !.zvols = {"tank/src", "tank/v1"}
                      \cup (IF "origin" \in DOMAIN pr /\ pr.origin # <<>>
                               THEN {Join(split(pr.origin, "@")[1])}
                               ELSE {}),
          !.props = pr,
          !.snapshots = {"tank/v1@snap1"}
                          \cup (IF "origin" \in DOMAIN pr /\ pr.origin # <<>>
                                   THEN {Join(pr.origin)} ELSE {}),
          !.bindings = b]
        : pr \in PropsValues, b \in BindingsValues }

LifecycleInit ==
    /\ nms \in LifecycleAppliances
    /\ cond = [m \in Methods |-> Undetermined]
    /\ th = [p \in Procs |-> Idle]
    /\ streak = [on |-> FALSE, vol |-> "v1", first |-> {}]
    /\ aborted = {}

LifecycleStep(p) ==
    \/ get_child_props(p)
    \/ zvol_destroy(p)
    \/ snapshot_destroy(p)
    \/ zvol_create_snapshot(p)
    \/ zvol_clone(p)

LifecycleNext ==
    \/ \E p \in Procs, op \in LifecycleOps, v \in Volumes,
          snapshot \in SnapshotRefs : Begin(p, op, v, snapshot)
    \/ \E p \in Procs : LifecycleStep(p)

\* delete_volume, create_cloned_volume, create_snapshot and delete_snapshot
LifecycleSpec == LifecycleInit /\ [][LifecycleNext]_vars

MigrationStep(p) ==
    \/ ssh_list_bindings(p)
    \/ zvol_create_snapshot(p)
    \/ appliance_execute(p)
    \/ appliance_execute_unexpected(p)
    \/ snapshot_destroy(p)
    \/ get_child_props(p)
    \/ zvol_destroy(p)
    \/ dst_snapshot_destroy(p)

MigrationNext ==
    \/ \E p \in Procs, v \in Volumes, status \in Statuses, host \in Hosts :
          BeginMigrate(p, v, status, host)
    \/ \E p \in Procs : MigrationStep(p)

\* migrate_volume
MigrationSpec == LifecycleInit /\ [][MigrationNext]_vars

\* two callers of the driver whose remote calls the appliance serves one at
\* a time, in any order
Callers == {"a", "b"}

\* the appliance answers every call by its state: no fault but the rejection
\* of a creation whose resource is there already
ConcurrentInit ==
    /\ nms \in {EmptyAppliance, OtherTenant}
    /\ cond = [m \in Methods |-> Healthy]
    /\ th = [p \in Callers |-> Idle]
    /\ streak = [on |-> FALSE, vol |-> "v1", first |-> {}]
    /\ aborted = {}

\* a caller enters ensure_export for volume v, once
Enter(p, v) ==
    /\ th[p].pc = "idle"
    /\ Start(p, "ensure_export", v, "fault-free")

ConcurrentStep(p) ==
    \/ list_targets_first(p)
    \/ list_targets_second(p)
    \/ create_target(p)
    \/ list_targetgroups_call(p)
    \/ create_targetgroup(p)
    \/ list_targetgroup_members_call(p)
    \/ add_targetgroup_member(p)
    \/ lu_exists_call(p)
    \/ create_lu(p)
    \/ lu_shared_call(p)
    \/ add_lun_mapping_entry(p)

ConcurrentNext ==
    \/ \E p \in Callers, v \in Volumes : Enter(p, v)
    \/ \E p \in Callers : ConcurrentStep(p)

\* two ensure_export calls for the same volume, interleaved call by call
ConcurrentSpec == ConcurrentInit /\ [][ConcurrentNext]_vars

----------------------------------------------------------------------------
(* Vocabulary of the properties *)

ExportOps == {"create_export", "ensure_export", "create_volume"}

\* the positions in the call log of t at which method m was called
CallsOf(t, m) == {i \in 1..Len(t.calls) : t.calls[i].m = m}

\* the export steps whose creation call t has issued
CreatedSteps(t) == {k \in 1..5 : CallsOf(t, CreateOf(k)) # {}}

\* the call at position i of t's log raised out of the driver call
RaisedBy(t, i) ==
    /\ t.pc = "raised"
    /\ i = Len(t.calls)
    /\ t.exc = NexentaException(t.calls[i].msg)

\* the kind of a fault message by the rule table: substring containment,
\* first match wins
classify(msg) ==
    CASE Contains(msg, "does not exist") -> "NotFound"
      [] Contains(msg, "already configured") \/ Contains(msg, "already exists")
            -> "AlreadyExists"
      [] Contains(msg, "target must be offline") -> "TargetOffline"
      [] \/ Contains(msg, "has children") \/ Contains(msg, "in use")
         \/ Contains(msg, "view entry exists") \/ Contains(msg, "dependent clones")
            -> "Busy"
      [] OTHER -> "Unknown"

\* the wordings under which ensure_export goes on after the creation call
\* of step k has failed
Tolerated(k, msg) ==
    \/ k = 1 /\ Contains(msg, "already configured")
    \/ k \in {2, 3} /\ Contains(msg, "already exists")
    \/ k \in {2, 3} /\ Contains(msg, "target must be offline")
    \/ k = 4 /\ Contains(msg, "in use")
    \/ k = 5 /\ Contains(msg, "view entry exists")

\* the creation call of step k, at position i of t's log, has failed
CreationFault(t, k, i) ==
    /\ ~t.calls[i].ok
    /\ t.calls[i].m = CreateOf(k)

----------------------------------------------------------------------------
(* C1 *)

\* C1 as stated: an ensure_export that follows, with the appliance unchanged,
\* an ensure_export that returned raises nothing, issues no creation call and
\* leaves the appliance as it was.
C1_NoCreationCall ==
    \A p \in Procs :
        th[p].second =>
            /\ th[p].pc # "raised"
            /\ CreatedSteps(th[p]) = {}
            /\ ~th[p].changed

\* C1 amended: such a second ensure_export raises nothing and leaves the
\* appliance as it was; it issues a creation call only at a step where the
\* first call ignored the creation fault or took a fault of the existence
\* check for "absent".
C1_SecondEnsureExport ==
    \A p \in Procs :
        th[p].second =>
            /\ th[p].pc # "raised"
            /\ ~th[p].changed
            /\ CreatedSteps(th[p]) \subseteq th[p].first

C1_Witness ==
    \E p \in Procs :
        /\ th[p].second
        /\ th[p].pc = "done"
        /\ CreatedSteps(th[p]) # {}
        /\ CreatedSteps(th[p]) # 1..5

----------------------------------------------------------------------------
(* C2 *)

\* C2: in create_export (ensure=False) a fault of any of the five creation
\* calls, whatever its text, is propagated and no provider location is
\* returned.
C2_StrictPropagates ==
    \A p \in Procs :
        th[p].op = "create_export" =>
            \A k \in 1..5 : \A i \in 1..Len(th[p].calls) :
                CreationFault(th[p], k, i) =>
                    RaisedBy(th[p], i) /\ th[p].ret = None

----------------------------------------------------------------------------
(* C3 *)

\* C3 as stated: in ensure_export a creation fault whose message classifies
\* as AlreadyExists or TargetOffline is, at each of the five steps, not
\* raised and the step counts as completed.
C3_ByClassification ==
    \A p \in Procs :
        th[p].op = "ensure_export" =>
            \A k \in 1..5 : \A i \in 1..Len(th[p].calls) :
                ( /\ CreationFault(th[p], k, i)
                  /\ classify(th[p].calls[i].msg)
                        \in {"AlreadyExists", "TargetOffline"} )
                => ~RaisedBy(th[p], i) /\ k \in th[p].ignored

\* C3 amended: in ensure_export a creation fault is not raised, and the step
\* counts as completed, when its message contains the wording tolerated at
\* that step: "already configured" at step 1, "already exists" or "target
\* must be offline" at steps 2 and 3, "in use" at step 4, "view entry
\* exists" at step 5.
C3_ToleratedFaultIgnored ==
    \A p \in Procs :
        th[p].op = "ensure_export" =>
            \A k \in 1..5 : \A i \in 1..Len(th[p].calls) :
                ( /\ CreationFault(th[p], k, i)
                  /\ Tolerated(k, th[p].calls[i].msg) )
                => /\ ~RaisedBy(th[p], i)
                   /\ k \in th[p].ignored
                   /\ \/ th[p].pc = "done"
                      \/ i < Len(th[p].calls)
                      \/ (k < 5 /\ th[p].pc = CheckOf(k + 1))

C3_Witness ==
    \E p \in Procs :
        /\ th[p].op = "ensure_export"
        /\ th[p].pc = "done"
        /\ \E i \in 1..Len(th[p].calls) :
              /\ CreationFault(th[p], 3, i)
              /\ Contains(th[p].calls[i].msg, "target must be offline")
        /\ \E i \in 1..Len(th[p].calls) :
              /\ CreationFault(th[p], 1, i)
              /\ Contains(th[p].calls[i].msg, "already configured")

----------------------------------------------------------------------------
(* C4 *)

\* C4 as stated: in ensure_export a creation fault whose message classifies
\* as anything but AlreadyExists or TargetOffline (NotFound, Busy, Unknown)
\* aborts the call and is propagated.
C4_ByClassification ==
    \A p \in Procs :
        th[p].op = "ensure_export" =>
            \A k \in 1..5 : \A i \in 1..Len(th[p].calls) :
                ( /\ CreationFault(th[p], k, i)
                  /\ classify(th[p].calls[i].msg)
                        \notin {"AlreadyExists", "TargetOffline"} )
                => RaisedBy(th[p], i)

\* C4 amended: in ensure_export a creation fault aborts the call and is
\* propagated unchanged unless its message contains the wording tolerated at
\* that step ("already configured" at step 1, "already exists" or "target
\* must be offline" at steps 2 and 3, "in use" at step 4, "view entry
\* exists" at step 5).
C4_OtherFaultPropagates ==
    \A p \in Procs :
        th[p].op = "ensure_export" =>
            \A k \in 1..5 : \A i \in 1..Len(th[p].calls) :
                ( /\ CreationFault(th[p], k, i)
                  /\ ~Tolerated(k, th[p].calls[i].msg) )
                => RaisedBy(th[p], i) /\ k \notin th[p].ignored

C4_Witness ==
    \E p \in Procs :
        /\ th[p].op = "ensure_export"
        /\ th[p].pc = "raised"
        /\ CreationFault(th[p], 4, Len(th[p].calls))
        /\ classify(th[p].exc.msg) = "AlreadyExists"
        /\ th[p].ignored # {}

----------------------------------------------------------------------------
(* C5 *)

\* C5: in both modes, for each of the 5 export steps, when the existence
\* check of the step reports the resource present, no creation call for that
\* step is issued during the call.
C5_PresentNotCreated ==
    \A p \in Procs :
        th[p].op \in ExportOps =>
            \A k \in th[p].found : CallsOf(th[p], CreateOf(k)) = {}

C5_Witness ==
    \E p \in Procs :
        /\ th[p].op = "create_export"
        /\ th[p].pc = "done"
        /\ th[p].found = {1, 2, 4}
        /\ CreatedSteps(th[p]) = {3, 5}

----------------------------------------------------------------------------
(* C6 *)

\* C6: after an export run for the volume was aborted by a fault, an
\* ensure_export for the volume against an appliance that is now fault-free
\* does not raise, issues creation calls exactly for the steps whose
\* resource is not yet present, and ends with all five resources present.
C6_RecoversAfterAbort ==
    \A p \in Procs :
        ( /\ th[p].op = "ensure_export"
          /\ th[p].after_abort
          /\ th[p].faultfree )
        => /\ th[p].pc # "raised"
           /\ CreatedSteps(th[p]) \subseteq th[p].absent
           /\ th[p].pc = "done" =>
                /\ CreatedSteps(th[p]) = th[p].absent
                /\ Absent(nms, th[p].vol) = {}

C6_Witness ==
    \E p \in Procs :
        /\ th[p].op = "ensure_export"
        /\ th[p].after_abort
        /\ th[p].faultfree
        /\ th[p].pc = "done"
        /\ th[p].absent = {3, 4, 5}
        /\ Len(th[p].calls) = 9

----------------------------------------------------------------------------
(* C7 *)

\* C7: in ensure mode, after the creation fault of step k < 5 is ignored,
\* the existence check of step k+1 is the next call, and when it answers and
\* the resource of step k+1 is absent, the creation call of step k+1 follows.
C7_ContinuesAfterIgnoredFault ==
    \A p \in Procs :
        th[p].op = "ensure_export" =>
            \A k \in 1..4 : \A i \in 1..Len(th[p].calls) :
                (CreationFault(th[p], k, i) /\ k \in th[p].ignored) =>
                    IF i = Len(th[p].calls)
                    THEN th[p].pc = CheckOf(k + 1)
                    ELSE /\ th[p].calls[i + 1].m = CheckOf(k + 1)
                         /\ (th[p].calls[i + 1].ok /\ (k + 1) \in th[p].absent)
                            => IF i + 1 = Len(th[p].calls)
                               THEN th[p].pc = CreateOf(k + 1)
                               ELSE th[p].calls[i + 2].m = CreateOf(k + 1)

C7_Witness ==
    \E p \in Procs :
        /\ th[p].op = "ensure_export"
        /\ 2 \in th[p].ignored
        /\ \E i \in 1..Len(th[p].calls) :
              /\ CreationFault(th[p], 2, i)
              /\ th[p].calls[i].msg = Text({"already exists"})
              /\ i + 2 <= Len(th[p].calls)
              /\ th[p].calls[i + 1].m = "stmf.list_targetgroup_members"
              /\ th[p].calls[i + 2].m = "stmf.add_targetgroup_member"

----------------------------------------------------------------------------
(* C8 *)

\* C8: in remove_export a fault of delete_lu is propagated, and then neither
\* destroy_targetgroup nor delete_target is called.
C8_DeleteLuFaultPropagates ==
    \A p \in Procs :
        ( /\ th[p].op = "remove_export"
          /\ Len(th[p].calls) >= 1
          /\ ~th[p].calls[1].ok )
        => /\ th[p].calls[1].m = "scsidisk.delete_lu"
           /\ RaisedBy(th[p], 1)
           /\ CallsOf(th[p], "stmf.destroy_targetgroup") = {}
           /\ CallsOf(th[p], "iscsitarget.delete_target") = {}

C8_Witness ==
    \E p \in Procs :
        /\ th[p].op = "remove_export"
        /\ th[p].pc = "raised"
        /\ th[p].calls[1].m = "scsidisk.delete_lu"
        /\ th[p].exc = NexentaException(Text({"in use"}))

----------------------------------------------------------------------------
(* C9 *)

\* C9: in remove_export, once delete_lu has succeeded, no fault of
\* destroy_targetgroup or delete_target is propagated, and delete_target is
\* still attempted exactly once when destroy_targetgroup fails.
C9_TeardownFaultsSwallowed ==
    \A p \in Procs :
        ( /\ th[p].op = "remove_export"
          /\ Len(th[p].calls) >= 1
          /\ th[p].calls[1].ok )
        => /\ th[p].pc # "raised"
           /\ th[p].exc = NoExc
           /\ \A i \in CallsOf(th[p], "stmf.destroy_targetgroup") :
                 ~th[p].calls[i].ok =>
                    \/ /\ i = Len(th[p].calls)
                       /\ th[p].pc = "iscsitarget.delete_target"
                    \/ Cardinality(CallsOf(th[p], "iscsitarget.delete_target")) = 1
           /\ th[p].pc = "done" =>
                 Cardinality(CallsOf(th[p], "iscsitarget.delete_target")) = 1

C9_Witness ==
    \E p \in Procs :
        /\ th[p].op = "remove_export"
        /\ th[p].pc = "done"
        /\ Len(th[p].calls) = 3
        /\ th[p].calls[1].ok
        /\ ~th[p].calls[2].ok
        /\ ~th[p].calls[3].ok

----------------------------------------------------------------------------
(* C10 *)

\* C10: create_volume issues exactly one block-device creation call, first,
\* and only afterwards the export sequence in strict mode; when nothing
\* faults it returns the provider location "<host>:<port>,1
\* <target-prefix><volume-name> 0", and when the creation call faults no
\* export call is issued.
C10_CreateVolume ==
    \A p \in Procs :
        (th[p].op = "create_volume" /\ Len(th[p].calls) >= 1) =>
            /\ CallsOf(th[p], "zvol.create") = {1}
            /\ th[p].calls[1].arg[1] = "tank/" \o th[p].vol
            /\ ~th[p].ensure
            /\ ~th[p].calls[1].ok =>
                  RaisedBy(th[p], 1) /\ th[p].ret = None
            /\ (th[p].pc = "done"
                   /\ \A i \in 1..Len(th[p].calls) : th[p].calls[i].ok) =>
                  /\ th[p].ret = <<"host1:3260,1 iqn.prefix." \o th[p].vol \o " 0">>
                  /\ Absent(nms, th[p].vol) = {}

C10_Witness ==
    \E p \in Procs :
        /\ th[p].op = "create_volume"
        /\ th[p].pc = "done"
        /\ th[p].vol = "v1"
        /\ th[p].ret = <<"host1:3260,1 iqn.prefix.v1 0">>
        /\ Len(th[p].calls) = 11
        /\ \A i \in 1..Len(th[p].calls) : th[p].calls[i].ok

----------------------------------------------------------------------------
(* Vocabulary of the volume, snapshot and migration properties *)

\* the driver call of t is over
Finished(t) == t.pc \in {"done", "raised"}

\* the positions in the call log of t at which method m failed
FaultsOf(t, m) == {i \in CallsOf(t, m) : ~t.calls[i].ok}

\* t has returned without an exception
Returned(t) == t.pc = "done" /\ t.exc = NoExc

\* what delete_volume makes of a failed zvol.destroy, busy being the wording
\* that stands for a volume with children
DeleteVolumeOutcome(t, busy) ==
    \A i \in FaultsOf(t, "zvol.destroy") :
        CASE Contains(t.calls[i].msg, "does not exist") -> Returned(t)
          [] Contains(t.calls[i].msg, busy) ->
               t.pc = "raised" /\ t.exc = VolumeIsBusy(_get_zvol_name(t.vol))
          [] OTHER -> RaisedBy(t, i)

----------------------------------------------------------------------------
(* C11 *)

----------------------------------------------------------------------------
(* C12 *)

\* C12 as stated: the outcome of delete_volume after a failed zvol.destroy
\* follows the rule table: 'does not exist' returns, otherwise 'has
\* children' raises VolumeIsBusy for the volume, anything else is re-raised.
C12_ByClassification ==
    \A p \in Procs :
        th[p].op = "delete_volume" => DeleteVolumeOutcome(th[p], "has children")

\* C12: the outcome of delete_volume after a failed zvol.destroy: a message
\* holding 'does not exist' returns, otherwise one holding 'zvol has
\* children' raises VolumeIsBusy for the volume, and any other message, one
\* holding 'has children' without 'zvol' included, is re-raised unchanged.
C12_DestroyFaultOutcome ==
    \A p \in Procs :
        th[p].op = "delete_volume"
        => DeleteVolumeOutcome(th[p], "zvol has children")

\* delete_volume has raised VolumeIsBusy
C12_Witness ==
    \E p \in Procs :
        /\ th[p].op = "delete_volume"
        /\ th[p].exc = VolumeIsBusy(_get_zvol_name(th[p].vol))
        /\ \E i \in FaultsOf(th[p], "zvol.destroy") :
              /\ Contains(th[p].calls[i].msg, "zvol has children")
              /\ ~Contains(th[p].calls[i].msg, "does not exist")

----------------------------------------------------------------------------
(* C13 *)

----------------------------------------------------------------------------
(* C14 *)

\* C14 as stated: when delete_volume has destroyed the volume and the
\* deletion of the origin snapshot fails, for whatever reason, delete_volume
\* returns without an exception.
C14_OriginCleanupSwallowed ==
    \A p \in Procs :
        ( /\ th[p].op = "delete_volume"
          /\ \E i \in CallsOf(th[p], "zvol.destroy") : th[p].calls[i].ok
          /\ FaultsOf(th[p], "snapshot.destroy") # {} )
        => Returned(th[p])

----------------------------------------------------------------------------
(* C15 *)

\* C15 as stated: in create_cloned_volume a failed zvol.clone is followed by
\* exactly one snapshot.destroy and the fault of zvol.clone is what the
\* caller gets, whatever the deletion answers; a successful zvol.clone is
\* followed by no snapshot.destroy.
C15_CloneFailureCleanup ==
    \A p \in Procs :
        th[p].op = "create_cloned_volume" =>
            /\ \A i \in CallsOf(th[p], "zvol.clone") :
                  th[p].calls[i].ok => CallsOf(th[p], "snapshot.destroy") = {}
            /\ \A i \in FaultsOf(th[p], "zvol.clone") :
                  Finished(th[p]) =>
                      /\ Cardinality(CallsOf(th[p], "snapshot.destroy")) = 1
                      /\ th[p].pc = "raised"
                      /\ th[p].exc = NexentaException(th[p].calls[i].msg)

----------------------------------------------------------------------------
(* C16 *)

\* what delete_snapshot makes of a failed snapshot.destroy, busy being the
\* wording that stands for a snapshot with clones, and what create_snapshot
\* makes of a failed zvol.create_snapshot
SnapshotOutcome(t, busy) ==
    /\ t.op = "delete_snapshot" =>
          \A i \in FaultsOf(t, "snapshot.destroy") :
              CASE Contains(t.calls[i].msg, "does not exist") -> Returned(t)
                [] Contains(t.calls[i].msg, busy) ->
                     /\ t.pc = "raised"
                     /\ t.exc = SnapshotIsBusy(t.snapshot.name)
                [] OTHER -> RaisedBy(t, i)
    /\ t.op = "create_snapshot" =>
          \A i \in FaultsOf(t, "zvol.create_snapshot") : RaisedBy(t, i)

\* C16 as stated: delete_snapshot returns on 'does not exist', raises
\* SnapshotIsBusy on 'dependent clones' and re-raises any other fault;
\* create_snapshot propagates every fault.
C16_ByClassification ==
    \A p \in Procs : SnapshotOutcome(th[p], "dependent clones")

\* C16: delete_snapshot returns on a message holding 'does not exist',
\* otherwise raises SnapshotIsBusy for the snapshot on a message holding
\* 'snapshot has dependent clones', and re-raises any other fault, one
\* holding 'dependent clones' without 'snapshot has' included;
\* create_snapshot propagates every fault.
C16_SnapshotFaultOutcome ==
    \A p \in Procs : SnapshotOutcome(th[p], "snapshot has dependent clones")

\* delete_snapshot has raised SnapshotIsBusy
C16_Witness ==
    \E p \in Procs :
        /\ th[p].op = "delete_snapshot"
        /\ th[p].exc = SnapshotIsBusy("snap1")
        /\ \E i \in FaultsOf(th[p], "snapshot.destroy") :
              /\ Contains(th[p].calls[i].msg, "snapshot has dependent clones")
              /\ ~Contains(th[p].calls[i].msg, "does not exist")

----------------------------------------------------------------------------
(* C17 *)

\* the destination advertises the vendor, a location whose first component
\* is the driver's class, and room for a volume of the given size
Advertises(host, size) ==
    /\ "capabilities" \in DOMAIN host
    /\ "vendor_name" \in DOMAIN host.capabilities
    /\ host.capabilities.vendor_name = "Nexenta"
    /\ "location_info" \in DOMAIN host.capabilities
    /\ Head(host.capabilities.location_info) = ClassName
    /\ "free_capacity_gb" \in DOMAIN host.capabilities
    /\ host.capabilities.free_capacity_gb >= size

\* C17 as stated: migrate_volume returns (False, None), without raising and
\* without a remote call, whenever the volume is not available or the
\* destination does not advertise the vendor, the driver's location or
\* enough room, a missing field included; with exactly as much room as the
\* volume needs it goes on.
C17_NotApplicable ==
    \A p \in Procs :
        th[p].op = "migrate_volume" =>
            /\ ( \/ th[p].status # "available"
                 \/ ~Advertises(th[p].host, VolumeSize) )
               => /\ Returned(th[p])
                  /\ th[p].ret = false_ret
                  /\ th[p].calls = <<>>
            /\ ( /\ th[p].status = "available"
                 /\ th[p].host =
                      [ host |-> "node2",
                        capabilities |->
                          [GoodCapabilities EXCEPT
                              !.free_capacity_gb = VolumeSize] ] )
               => ~(Finished(th[p]) /\ th[p].calls = <<>>)

----------------------------------------------------------------------------
(* C18 *)

\* C18 as stated: whatever list appliance.ssh_list_bindings returns,
\* migrate_volume does not raise on it and goes on to create the temporary
\* snapshot.
C18_BindingsOnlyWarned ==
    \A p \in Procs :
        ( /\ th[p].op = "migrate_volume"
          /\ Len(th[p].calls) = 1
          /\ th[p].calls[1].m = "appliance.ssh_list_bindings"
          /\ th[p].calls[1].ok )
        => th[p].pc = "zvol.create_snapshot"

----------------------------------------------------------------------------
(* C19 *)

\* the positions at which t called snapshot.destroy for the temporary
\* snapshot of the migration
TempDeletions(t) ==
    {i \in CallsOf(t, "snapshot.destroy") :
        t.calls[i].arg[1] = _get_zvol_name(t.vol) \o "@"
                               \o get_migrate_snapshot_name(t.vol)}

\* the replication command of t has failed with a NexentaException
ReplicationFault(t) ==
    /\ t.op = "migrate_volume"
    /\ FaultsOf(t, "appliance.execute") # {}
    /\ t.pending.kind = "return"

\* C19 as stated: a migrate_volume whose replication command failed with an
\* appliance fault has, when it is over, called snapshot.destroy for the
\* temporary snapshot exactly once and returned (False, None) without
\* raising.
C19_ReplicationFailure ==
    \A p \in Procs :
        (ReplicationFault(th[p]) /\ Finished(th[p]))
        => /\ Cardinality(TempDeletions(th[p])) = 1
           /\ Returned(th[p])
           /\ th[p].ret = false_ret

----------------------------------------------------------------------------
(* C20 *)

\* C20: in migrate_volume appliance.execute is called only after the
\* temporary snapshot has been created, and whatever comes of it (success,
\* appliance fault, another exception) the next remote call is the
\* snapshot.destroy of the temporary snapshot, made before migrate_volume
\* returns or raises; that deletion is never attempted twice.
C20_TempSnapshotReleased ==
    \A p \in Procs :
        th[p].op = "migrate_volume" =>
            /\ Cardinality(TempDeletions(th[p])) <= 1
            /\ \A i \in CallsOf(th[p], "appliance.execute") :
                  /\ i > 1
                  /\ th[p].calls[i - 1].m = "zvol.create_snapshot"
                  /\ th[p].calls[i - 1].ok
                  /\ IF Len(th[p].calls) = i
                        THEN th[p].pc = "snapshot.destroy"
                        ELSE i + 1 \in TempDeletions(th[p])
            /\ ( /\ Finished(th[p])
                 /\ \E i \in CallsOf(th[p], "zvol.create_snapshot") :
                       th[p].calls[i].ok )
               => Cardinality(TempDeletions(th[p])) = 1

\* migrate_volume has raised the unexpected exception of the replication
\* command after one attempt to delete the temporary snapshot
C20_Witness ==
    \E p \in Procs :
        /\ th[p].op = "migrate_volume"
        /\ th[p].pc = "raised"
        /\ th[p].exc = UnexpectedError
        /\ Cardinality(TempDeletions(th[p])) = 1

----------------------------------------------------------------------------
(* C21 *)

\* the replication command of t has succeeded
ReplicationDone(t) ==
    /\ t.op = "migrate_volume"
    /\ \E i \in CallsOf(t, "appliance.execute") : t.calls[i].ok

\* the positions at which t called the destination appliance to destroy the
\* transferred temporary snapshot '<dest-pool>/<volume>@<snapshot>'
DstDeletions(t) ==
    {i \in CallsOf(t, "dst.snapshot.destroy") :
        t.calls[i].arg[1] = Join(dst_volume(t.host)) \o "/" \o t.vol \o "@"
                               \o get_migrate_snapshot_name(t.vol)}

\* t has returned (True, {'provider_location': ...}) for the destination
MigratedTo(t) ==
    /\ Returned(t)
    /\ Len(t.ret) = 2
    /\ t.ret[1] = TRUE
    /\ t.ret[2] =
          [provider_location |-> migrate_provider_location(t.host, t.vol)]

\* C21 as stated: a migrate_volume whose replication command succeeded has,
\* when it is over, started the deletion of the source volume on the source
\* appliance, called snapshot.destroy on the destination appliance for
\* '<dest-pool>/<volume>@<snapshot>' and returned success with the
\* provider location '<dest-host>:<dest-port>,1 <prefix><volume> 0'.
C21_MigrationCompleted ==
    \A p \in Procs :
        (ReplicationDone(th[p]) /\ Finished(th[p]))
        => /\ CallsOf(th[p], "zvol.get_child_props") # {}
           /\ DstDeletions(th[p]) # {}
           /\ \A i \in CallsOf(th[p], "snapshot.destroy") :
                 \A j \in DstDeletions(th[p]) :
                    th[p].calls[i].arg # th[p].calls[j].arg
           /\ MigratedTo(th[p])

\* the same for the runs that no busy exception of delete_snapshot or
\* delete_volume has left
C21_WithoutBusy ==
    \A p \in Procs :
        th[p].exc.type \notin {"SnapshotIsBusy", "VolumeIsBusy"}
        => C21_MigrationCompleted

----------------------------------------------------------------------------
(* C22 *)

\* the positions in the call log of t at which a step of the migration
\* other than the replication command failed
OtherStepFaults(t) ==
    {i \in 1..Len(t.calls) :
        ~t.calls[i].ok /\ t.calls[i].m # "appliance.execute"}

\* C22 as stated: a migrate_volume that has passed its precondition checks
\* and in which a remote call other than the replication command failed
\* never raises: when it is over it has returned, (False, None) if the
\* replication command failed and success otherwise.
C22_OnlyReplicationMatters ==
    \A p \in Procs :
        ( /\ th[p].op = "migrate_volume"
          /\ OtherStepFaults(th[p]) # {}
          /\ th[p].exc # UnexpectedError
          /\ Finished(th[p]) )
        => /\ Returned(th[p])
           /\ IF FaultsOf(th[p], "appliance.execute") # {}
                 THEN th[p].ret = false_ret
                 ELSE MigratedTo(th[p])

----------------------------------------------------------------------------
(* C23 *)

\* C23 as stated: a migrate_volume whose replication command succeeded and
\* whose deletion of the source volume failed (zvol.get_child_props or
\* zvol.destroy answered with a fault, 'zvol has children' included) has,
\* when it is over, called the destination appliance to destroy the
\* transferred snapshot and returned success with the new provider location.
C23_SourceDeletionBestEffort ==
    \A p \in Procs :
        ( /\ ReplicationDone(th[p])
          /\ FaultsOf(th[p], "zvol.get_child_props")
                \cup FaultsOf(th[p], "zvol.destroy") # {}
          /\ Finished(th[p]) )
        => /\ DstDeletions(th[p]) # {}
           /\ MigratedTo(th[p])

----------------------------------------------------------------------------
(* C25 *)

\* C25 as stated: a migrate_volume whose deletion of the temporary source
\* snapshot failed, for whatever reason, has when it is over returned
\* (False, None) if the replication command failed with an appliance fault,
\* and has gone on to the deletion of the source volume and returned success
\* if the replication command succeeded.
C25_TempDeletionNeverMatters ==
    \A p \in Procs :
        ( /\ th[p].op = "migrate_volume"
          /\ TempDeletions(th[p]) \cap FaultsOf(th[p], "snapshot.destroy")
                # {}
          /\ Finished(th[p]) )
        => /\ FaultsOf(th[p], "appliance.execute") # {}
              /\ th[p].exc # UnexpectedError
              => Returned(th[p]) /\ th[p].ret = false_ret
           /\ ReplicationDone(th[p])
              => /\ CallsOf(th[p], "zvol.get_child_props") # {}
                 /\ Returned(th[p])
                 /\ Len(th[p].ret) = 2
                 /\ th[p].ret[1] = TRUE

----------------------------------------------------------------------------
(* C29 *)

\* the positions at which t called the source appliance for the deletion of
\* the source volume (delete_volume reads the origin, then destroys)
SourceDeletions(t) ==
    {i \in CallsOf(t, "zvol.get_child_props") \cup CallsOf(t, "zvol.destroy")
        : t.calls[i].arg[1] = _get_zvol_name(t.vol)}

\* C29: in migrate_volume every call of the source volume deletion and of
\* the destination snapshot deletion comes after a successful
\* appliance.execute and after the attempt to delete the temporary source
\* snapshot; the destination snapshot deletion comes after the calls of the
\* source volume deletion, of which there is at least one; and after a
\* failed appliance.execute neither deletion is ever called.
C29_DeletionOrder ==
    \A p \in Procs :
        th[p].op = "migrate_volume" =>
            /\ \A i \in SourceDeletions(th[p])
                        \cup CallsOf(th[p], "dst.snapshot.destroy") :
                  \E j \in CallsOf(th[p], "appliance.execute") :
                     /\ th[p].calls[j].ok
                     /\ \E k \in TempDeletions(th[p]) : j < k /\ k < i
            /\ \A d \in CallsOf(th[p], "dst.snapshot.destroy") :
                  /\ d \in DstDeletions(th[p])
                  /\ SourceDeletions(th[p]) # {}
                  /\ \A i \in SourceDeletions(th[p]) : i < d
            /\ ~ReplicationDone(th[p])
               => /\ CallsOf(th[p], "zvol.get_child_props") = {}
                  /\ CallsOf(th[p], "zvol.destroy") = {}
                  /\ CallsOf(th[p], "dst.snapshot.destroy") = {}
            /\ th[p].pc \in {"zvol.get_child_props", "zvol.destroy",
                             "dst.snapshot.destroy"}
               => ReplicationDone(th[p]) /\ TempDeletions(th[p]) # {}

\* migrate_volume is over, having called zvol.destroy for the source volume
\* and after it the destination appliance for the transferred snapshot
C29_Witness ==
    \E p \in Procs :
        /\ th[p].op = "migrate_volume"
        /\ Finished(th[p])
        /\ \E i \in CallsOf(th[p], "zvol.destroy") :
              \E d \in DstDeletions(th[p]) : i < d

----------------------------------------------------------------------------
(* C26 *)

\* C26 as stated: whenever delete_volume asks the appliance to destroy the
\* origin snapshot of a clone, the snapshot it names is the identifier read
\* from the origin property, '<pool>/<source-volume>@<snapshot>', whatever
\* the name of the source volume.
C26_OriginSnapshotName ==
    \A p \in Procs :
        th[p].op = "delete_volume" =>
            \A i \in CallsOf(th[p], "snapshot.destroy") :
                th[p].calls[i].arg[1] = Join(dict_get(th[p].props, "origin"))

\* the same for the source volume whose name begins with no character of
\* the pool name
C26_PlainSourceVolume ==
    \A p \in Procs :
        ( /\ th[p].op = "delete_volume"
          /\ th[p].props # [origin |-> PoolLikeCloneOrigin] )
        => \A i \in CallsOf(th[p], "snapshot.destroy") :
              th[p].calls[i].arg[1] = Join(dict_get(th[p].props, "origin"))

----------------------------------------------------------------------------
(* C27 *)

\* the failed existence check at position i of t's log, of step k, was taken
\* for 'absent': nothing was raised and the creation call of step k is the
\* next call
TakenForAbsent(t, k, i) ==
    /\ ~RaisedBy(t, i)
    /\ IF i = Len(t.calls) THEN t.pc = CreateOf(k)
       ELSE t.calls[i + 1].m = CreateOf(k)

\* C27 as stated: in the export sequence a fault of the existence check of
\* any step whose message contains 'does not exist' is taken for 'absent':
\* it is not raised and the creation call of the step follows.
C27_NotFoundMeansAbsent ==
    \A p \in Procs :
        th[p].op \in ExportOps =>
            \A k \in 1..5 :
                \A i \in FaultsOf(th[p], CheckOf(k)) :
                    Contains(th[p].calls[i].msg, "does not exist")
                    => TakenForAbsent(th[p], k, i)

\* C27 amended: a fault of the LU check (lu_exists) whose message contains
\* 'does not exist', and a fault of the LU mapping check (lu_shared) whose
\* message contains 'does not exist for zvol', are taken for 'absent' and
\* the creation call of the step follows; every other fault of an existence
\* check is raised to the caller: any fault of the target, target group and
\* membership listings, and a 'does not exist' of lu_shared without
\* 'for zvol'.
C27_NotFoundOfLuChecks ==
    \A p \in Procs :
        th[p].op \in ExportOps =>
            \A k \in 1..5 :
                \A i \in FaultsOf(th[p], CheckOf(k)) :
                    IF \/ k = 4 /\ Contains(th[p].calls[i].msg,
                                            "does not exist")
                       \/ k = 5 /\ Contains(th[p].calls[i].msg,
                                            "does not exist for zvol")
                       THEN TakenForAbsent(th[p], k, i)
                       ELSE RaisedBy(th[p], i)

\* lu_exists has failed with 'does not exist' (and not 'for zvol') and
\* create_lu was called next
C27_Witness ==
    \E p \in Procs :
        /\ th[p].op \in ExportOps
        /\ \E i \in FaultsOf(th[p], "scsidisk.lu_exists") :
              /\ Contains(th[p].calls[i].msg, "does not exist")
              /\ ~Contains(th[p].calls[i].msg, "does not exist for zvol")
              /\ i < Len(th[p].calls)
              /\ th[p].calls[i + 1].m = "scsidisk.create_lu"

----------------------------------------------------------------------------
(* C28 *)

\* the export step a remote method belongs to (0: none)
StepOf(m) ==
    CASE m \in {"stmf.list_targets", "stmf.list_targets again",
                "iscsitarget.create_target"} -> 1
      [] m \in {"stmf.list_targetgroups", "stmf.create_targetgroup"} -> 2
      [] m \in {"stmf.list_targetgroup_members",
                "stmf.add_targetgroup_member"} -> 3
      [] m \in {"scsidisk.lu_exists", "scsidisk.create_lu"} -> 4
      [] m \in {"scsidisk.lu_shared", "scsidisk.add_lun_mapping_entry"} -> 5
      [] OTHER -> 0

\* before position i of its log, t has found step j present, created it, or
\* ignored the fault of its creation call
SettledBefore(t, j, i) ==
    LET check == CheckOf(j)
        create == CreateOf(j)
    IN \E c \in 1..(i - 1) :
          \/ t.calls[c].m = check /\ t.calls[c].ok /\ j \in t.found
          \/ t.calls[c].m = create /\ (t.calls[c].ok \/ j \in t.ignored)

\* the call at position i of t's log failed and the fault was propagated:
\* neither a creation fault that was ignored nor a check taken for 'absent'
Propagated(t, i) ==
    /\ ~t.calls[i].ok
    /\ ~\E k \in t.ignored : t.calls[i].m = CreateOf(k)
    /\ ~\E k \in t.assumed : t.calls[i].m = CheckOf(k)

\* the calls of t come in the order of the export steps
InStepOrder(t) ==
    /\ \A i \in 1..Len(t.calls) :
          /\ \A j \in 1..(StepOf(t.calls[i].m) - 1) : SettledBefore(t, j, i)
          /\ i > 1 => StepOf(t.calls[i - 1].m) <= StepOf(t.calls[i].m)
          /\ \A k \in {StepOf(t.calls[i].m)} \ {0} :
                t.calls[i].m = CreateOf(k)
                => i > 1 /\ t.calls[i - 1].m = CheckOf(k)
          /\ ~t.calls[i].ok => (Propagated(t, i) => RaisedBy(t, i))
    /\ \A j \in 1..(StepOf(t.pc) - 1) : SettledBefore(t, j, Len(t.calls) + 1)
    /\ t.pc = "raised" => t.calls # <<>> /\ Propagated(t, Len(t.calls))

\* C28: in create_export, ensure_export and create_volume the calls of the
\* export sequence come in the order of the steps 1 target, 2 target group,
\* 3 membership, 4 LU, 5 LUN mapping: a call of step k, made or about to be
\* made, comes after every step j < k was found present, created, or had
\* its creation fault ignored, the creation call of a step comes after its
\* check; and a call whose fault is propagated is the last call of the
\* invocation, which has raised that fault.
C28_StepOrder ==
    \A p \in Procs : th[p].op \in ExportOps => InStepOrder(th[p])

\* ensure_export or create_export has raised the fault of the LUN mapping
\* creation after it found one earlier step present and ignored the
\* creation fault of another
C28_Witness ==
    \E p \in Procs :
        /\ th[p].op \in ExportOps
        /\ th[p].pc = "raised"
        /\ th[p].calls[Len(th[p].calls)].m = "scsidisk.add_lun_mapping_entry"
        /\ th[p].found # {}
        /\ th[p].ignored # {}

----------------------------------------------------------------------------
(* C30 *)

\* the methods that destroy a block device or an export resource
DestroyMethods ==
    {"zvol.destroy", "scsidisk.delete_lu", "stmf.destroy_targetgroup",
     "iscsitarget.delete_target"}

\* C30: a create_volume whose zvol.create succeeded and whose export
\* sequence raised has raised the fault of its last remote call, has called
\* no destroy method, and leaves on the appliance the block device and the
\* resource of every step whose creation call succeeded.
C30_NoRollback ==
    \A p \in Procs :
        ( /\ th[p].op = "create_volume"
          /\ th[p].pc \in {"raised"} \cup DestroyMethods
          /\ \E i \in CallsOf(th[p], "zvol.create") : th[p].calls[i].ok )
        => /\ RaisedBy(th[p], Len(th[p].calls))
           /\ \A m \in DestroyMethods : CallsOf(th[p], m) = {}
           /\ _get_zvol_name(th[p].vol) \in nms.zvols
           /\ \A k \in 1..5 :
                 (\E i \in CallsOf(th[p], CreateOf(k)) : th[p].calls[i].ok)
                 => k \notin Absent(nms, th[p].vol)

\* create_volume has created the block device, the target and the target
\* group and has raised the fault of a later step
C30_Witness ==
    \E p \in Procs :
        /\ th[p].op = "create_volume"
        /\ th[p].pc = "raised"
        /\ \E i \in CallsOf(th[p], "zvol.create") : th[p].calls[i].ok
        /\ \E i \in CallsOf(th[p], CreateOf(1)) : th[p].calls[i].ok
        /\ \E i \in CallsOf(th[p], CreateOf(2)) : th[p].calls[i].ok
        /\ StepOf(th[p].calls[Len(th[p].calls)].m) >= 3

----------------------------------------------------------------------------
(* C24 *)

\* the number of successful creation calls of step k in the log of t
Creations(t, k) ==
    Cardinality({i \in CallsOf(t, CreateOf(k)) : t.calls[i].ok})

\* both callers have returned or raised
BothOver == \A p \in Callers : Finished(th[p])

\* C24: of two ensure_export calls for the same volume whose remote calls
\* interleave in any order, on an appliance that answers each call by its
\* state and rejects the creation of a resource that is there with 'already
\* configured', 'already exists', 'in use' or 'view entry exists', neither
\* raises; every fault they meet is such a rejection; and once both are
\* over the target, the target group, the membership, the LU and the LUN
\* mapping of the volume are there, each created by exactly one successful
\* creation call and the mapping and the membership held once.
C24_ConcurrentEnsure ==
    /\ \A p \in Callers :
          /\ th[p].pc # "raised"
          /\ th[p].exc = NoExc
          /\ \A i \in 1..Len(th[p].calls) :
                ~th[p].calls[i].ok
                => \E k \in th[p].ignored :
                      /\ th[p].calls[i].m = CreateOf(k)
                      /\ classify(th[p].calls[i].msg)
                            \in {"AlreadyExists", "Busy"}
    /\ BothOver
       => /\ \A p \in Callers : Returned(th[p]) /\ th[p].ret = None
          /\ Absent(nms, "v1") = {}
          /\ \A k \in 1..5 :
                Creations(th["a"], k) + Creations(th["b"], k) = 1
          /\ Cardinality({e \in nms.maps : e[1] = _get_zvol_name("v1")}) = 1
          /\ Cardinality({e \in nms.members :
                             e[1] = _get_target_group_name("v1")}) = 1

\* both callers have returned, each after the appliance rejected one of its
\* creation calls as a duplicate
C24_Witness ==
    /\ BothOver
    /\ \A p \in Callers : th[p].ignored # {}

====
